---- MODULE Spec2Model ----
(***************************************************************************)
(* Model of the ClassiFi backend: the submission lifecycle                 *)
(* (SubmissionService.submit_assignment over SubmissionRepository), the    *)
(* class-code workflow (ClassService.create_class / delete_class over      *)
(* ClassRepository), the enrollment operations (join_class, leave_class,   *)
(* remove_student), create_assignment and the download endpoint.           *)
(* The relational store is modelled as sets of rows                        *)
(* with the constraints the ORM models declare; every awaited query,       *)
(* storage call or commit of a handler is one atomic step, so that calls   *)
(* of different requests interleave exactly at the awaits of the code.     *)
(* Every request has its own session (get_db); a statement sees the rows   *)
(* committed at its instant (READ COMMITTED, the default of PostgreSQL).   *)
(* The column submitted_at, which no modelled operation reads, and the     *)
(* names and descriptions of classes and assignments are left out.         *)
(***************************************************************************)
EXTENDS Integers, Sequences, FiniteSets, TLC

----------------------------------------------------------------------------
(* Bounds of the model *)

\* the clock runs over 0..MaxTime
MaxTime == 2
\* create_class calls are accepted while the id sequence of table classes
\* is at most MaxClassId
MaxClassId == 3
\* join calls are accepted while the id sequence of table enrollments is
\* at most MaxEnrollmentId
MaxEnrollmentId == 5
\* create_assignment calls are accepted while the id sequence of table
\* assignments is at most MaxAssignmentId
MaxAssignmentId == 3
\* the storage or persistence adapter may fail under a submit call while
\* the uuid source is at most MaxUuid
MaxUuid == 4

(* Fixture of the store the services are started on *)
\* the request workers; two calls may run concurrently
Procs == {1, 2}
\* the students that send requests: student 1 is enrolled, student 2 is not
Students == {1, 2}
\* the assignment ids requests name: assignment 1 exists, assignment 2 does not
AssignmentIds == {1, 2}
\* the deadline of the assignment: the clock can be before, at and after it
Deadline == MaxTime - 1

(* Program constants *)
MAX_FILE_SIZE == 10 * 1024 * 1024
MAX_DB_FILE_SIZE == 10485760
Languages == {"python", "java"}
\* generate_unique_class_code: default length and attempts per length
DEFAULT_CODE_LENGTH == 6
max_attempts == 100
\* Class.class_code is String(20)
CLASS_CODE_COLUMN_LENGTH == 20
\* get_submission_download_url: the life of a signed URL, in seconds
DOWNLOAD_URL_EXPIRES_IN == 3600

\* the characters generate_unique_class_code draws from.  The source draws
\* from string.ascii_uppercase + string.digits; the model draws from one
\* of them, so that max_attempts consecutive collisions can happen.
CodeChars == {"A"}
\* the teachers that send requests; teacher 11 owns the class of the
\* fixture.  Teachers and students are rows of one table users, so their
\* ids differ.
Teachers == {11, 12}
\* the class_code a create_class request carries: none, or a given code
SuppliedCodes == { << >>, <<"A","A","A","A","A","A">> }

----------------------------------------------------------------------------
(* Strings as sequences of characters, so that Path.suffix and str.lower   *)
(* are computed rather than assumed.                                       *)

UpperChars == <<"A","B","C","D","E","F","G","H","I","J","K","L","M",
                "N","O","P","Q","R","S","T","U","V","W","X","Y","Z">>
LowerChars == <<"a","b","c","d","e","f","g","h","i","j","k","l","m",
                "n","o","p","q","r","s","t","u","v","w","x","y","z">>

\* str.lower on one character
LowerChar(c) ==
    IF \E i \in 1..26 : UpperChars[i] = c
    THEN LowerChars[CHOOSE i \in 1..26 : UpperChars[i] = c]
    ELSE c

\* str.lower
Lower(s) == [i \in 1..Len(s) |-> LowerChar(s[i])]

\* str.rfind("."): the last index of a dot, 0 when there is none
RFindDot(s) ==
    IF \E i \in 1..Len(s) : s[i] = "."
    THEN CHOOSE i \in 1..Len(s) : s[i] = "." /\ \A j \in (i+1)..Len(s) : s[j] # "."
    ELSE 0

\* pathlib.PurePath.suffix of a name without directory part: the part from
\* the last dot on, empty when the dot is the first or the last character
Suffix(filename) ==
    LET i == RFindDot(filename)
    IN  IF 1 < i /\ i < Len(filename)
        THEN SubSeq(filename, i, Len(filename))
        ELSE << >>

EXT_PY == <<".","p","y">>
EXT_IPYNB == <<".","i","p","y","n","b">>
EXT_JAVA == <<".","j","a","v","a">>
EXT_JAR == <<".","j","a","r">>

\* SubmissionService.ALLOWED_EXTENSIONS.get(language, [])
ALLOWED_EXTENSIONS(language) ==
    CASE language = "python" -> {EXT_PY, EXT_IPYNB}
      [] language = "java" -> {EXT_JAVA, EXT_JAR}
      [] OTHER -> {}

\* SubmissionService._validate_file_extension
ValidateFileExtension(filename, programming_language) ==
    Lower(Suffix(filename)) \in ALLOWED_EXTENSIONS(programming_language)

(* The uploads a caller may send *)
FileNames == { <<"h","w",".","P","y">>,
               <<"M",".","j","a","v","a">>,
               <<"n",".","t","x","t">> }
FileSizes == {0, 1, MAX_FILE_SIZE, MAX_FILE_SIZE + 1}

----------------------------------------------------------------------------
VARIABLES
    classes,        \* rows of table classes
    assignments,    \* rows of table assignments
    enrollments,    \* rows of table enrollments
    submissions,    \* rows of table submissions (committed)
    fileStore,      \* keys of the objects in the storage bucket
    now,            \* the clock, datetime.now(timezone.utc)
    seq,            \* the id sequences of the tables and the uuid source
    sub,            \* per worker: the submit_assignment call it runs
    cls,            \* per worker: the class, enrollment, assignment or
                    \* download call it runs
    codeHistory     \* every (class id, class_code) ever committed

vars == <<classes, assignments, enrollments, submissions, fileStore, now,
          seq, sub, cls, codeHistory>>

----------------------------------------------------------------------------
(* Result kinds.  The services return (success, message, payload); the     *)
(* kind names the message of the return statement.                         *)
\*  "NotFound"               "Assignment not found"
\*  "Inactive"               "This assignment is no longer active"
\*  "NotEnrolled"            "You are not enrolled in this class"
\*  "DeadlinePassed"         "Assignment deadline has passed"
\*  "ResubmissionNotAllowed" "Resubmission is not allowed for this assignment"
\*  "FileTooLarge"           "File size exceeds maximum allowed (10.0MB)"
\*  "FileEmpty"              "File is empty"
\*  "InvalidFileType"        "Invalid file type. Expected ..."
\*  "Failure"                "Failed to submit assignment: <exception>"
\*  "Success"                "Assignment submitted successfully"
ValidationErrors == {"NotFound", "Inactive", "NotEnrolled", "DeadlinePassed",
                     "ResubmissionNotAllowed", "FileTooLarge", "FileEmpty",
                     "InvalidFileType"}

NoRow == [id |-> 0]

\* Result.scalar_one_or_none raises MultipleResultsFound on two or more rows
MultipleResultsFound(rows) == Cardinality(rows) > 1

\* the rows of a (assignment, student) pair, as both
\* get_submission_history and check_submission_exists select them
PairRows(rows, assignment_id, student_id) ==
    {r \in rows : r.assignment_id = assignment_id /\ r.student_id = student_id}

\* SubmissionRepository.check_submission_exists
\* (the result is meaningful only when the query did not raise)
CheckSubmissionExists(rows, assignment_id, student_id) ==
    PairRows(rows, assignment_id, student_id) # {}

\* EnrollmentRepository.check_enrollment_exists
EnrollmentRows(student_id, class_id) ==
    {e \in enrollments : e.student_id = student_id /\ e.class_id = class_id}

\* the call record of a worker that runs no submit call
IdleSub ==
    [pc |-> "idle", step |-> 0, arrival |-> 0,
     assignment_id |-> 0, student_id |-> 0,
     filename |-> << >>, file_size |-> 0,
     assignment |-> NoRow, is_enrolled |-> FALSE, current_time |-> 0,
     existing_submission |-> FALSE,
     file_path |-> NoRow, submission_number |-> 0, flipped |-> {},
     pre |-> {}, preStore |-> {}, result |-> "none", submission |-> NoRow]

\* an optional argument: None, or a value
None == << >>
Some(v) == <<v>>

\* the optional arguments of update_assignment, none of them supplied
NothingSupplied ==
    [programming_language |-> None, deadline |-> None,
     allow_resubmission |-> None]

\* the call record of a worker that runs no class, enrollment, assignment
\* or download call.  pre is the table the call may change as it was when
\* the call arrived; prev is the operation, the arguments and the result of
\* the call the worker ran before.
IdleCls ==
    [pc |-> "idle", op |-> "none", teacher_id |-> 0, class_id |-> 0,
     class_code |-> << >>, length |-> 0, attempt |-> 0, after |-> "none",
     student_count |-> 0, result |-> "none",
     student_id |-> 0, enrollment_id |-> 0, pre |-> {}, prev |-> << >>,
     deadline |-> 0, programming_language |-> << >>, current_time |-> 0,
     assignment_id |-> 0, submission_id |-> 0, url |-> NoRow,
     supplied |-> NothingSupplied, history |-> << >>]

----------------------------------------------------------------------------
(* SubmissionService.submit_assignment, one action per awaited step *)

\* a return statement of submit_assignment: the call ends with a result;
\* step is the numbered step of the code (1..9) the call got to
Return(p, step, kind) ==
    sub' = [sub EXCEPT ![p].pc = "done", ![p].step = step, ![p].result = kind]

\* the request arrives: form data assignment_id, student_id and file
BeginSubmit(p, aids, sids, names, sizes) ==
    /\ sub[p].pc \in {"idle", "done"}
    /\ \E a \in aids, s \in sids, n \in names, z \in sizes :
          sub' = [sub EXCEPT ![p] =
                    [IdleSub EXCEPT !.pc = "get_assignment", !.arrival = now,
                                    !.assignment_id = a, !.student_id = s,
                                    !.filename = n, !.file_size = z,
                                    !.pre = submissions, !.preStore = fileStore]]
    /\ UNCHANGED <<classes, assignments, enrollments, submissions, fileStore,
                   now, seq, cls, codeHistory>>

\* steps 1 and 2: the assignment exists and is active
GetAssignment(p) ==
    /\ sub[p].pc = "get_assignment"
    /\ LET rows == {a \in assignments : a.id = sub[p].assignment_id}
       IN  IF MultipleResultsFound(rows) THEN Return(p, 1, "Failure")
           ELSE IF rows = {} THEN Return(p, 1, "NotFound")
           ELSE LET assignment == CHOOSE a \in rows : TRUE
                IN  IF ~assignment.is_active THEN Return(p, 2, "Inactive")
                    ELSE sub' = [sub EXCEPT ![p].pc = "check_enrollment",
                                            ![p].assignment = assignment]
    /\ UNCHANGED <<classes, assignments, enrollments, submissions, fileStore,
                   now, seq, cls, codeHistory>>

\* step 3: the student is enrolled in the class of the assignment
CheckEnrollment(p) ==
    /\ sub[p].pc = "check_enrollment"
    /\ LET rows == EnrollmentRows(sub[p].student_id, sub[p].assignment.class_id)
       IN  IF MultipleResultsFound(rows) THEN Return(p, 3, "Failure")
           ELSE IF rows = {} THEN Return(p, 3, "NotEnrolled")
           ELSE sub' = [sub EXCEPT ![p].pc = "check_deadline",
                                   ![p].is_enrolled = TRUE]
    /\ UNCHANGED <<classes, assignments, enrollments, submissions, fileStore,
                   now, seq, cls, codeHistory>>

\* variants of the test of step 4 with the comparison off by one
DeadlineHasPassed_Inclusive(deadline, current_time) == deadline <= current_time
DeadlineHasPassed_Late(deadline, current_time) == deadline + 1 < current_time

\* the test of step 4: assignment.deadline < current_time
DeadlineHasPassed(deadline, current_time) == deadline < current_time

\* step 4: the deadline against the clock read at this instant
CheckDeadline(p) ==
    /\ sub[p].pc = "check_deadline"
    /\ IF DeadlineHasPassed(sub[p].assignment.deadline, now)
       THEN sub' = [sub EXCEPT ![p].pc = "done", ![p].step = 4,
                               ![p].result = "DeadlinePassed",
                               ![p].current_time = now]
       ELSE sub' = [sub EXCEPT ![p].pc = "check_resubmission",
                               ![p].current_time = now]
    /\ UNCHANGED <<classes, assignments, enrollments, submissions, fileStore,
                   now, seq, cls, codeHistory>>

\* variant of step 5 that clears the flags of the pair before it decides
CheckResubmission_FlipFirst(p) ==
    /\ sub[p].pc = "check_resubmission"
    /\ LET rows == PairRows(submissions, sub[p].assignment_id, sub[p].student_id)
       IN  IF MultipleResultsFound(rows) THEN Return(p, 5, "Failure")
           ELSE IF rows # {} /\ ~sub[p].assignment.allow_resubmission
                THEN Return(p, 5, "ResubmissionNotAllowed")
           ELSE sub' = [sub EXCEPT ![p].pc = "validate_file",
                                   ![p].existing_submission = (rows # {})]
    /\ submissions' = {IF r.assignment_id = sub[p].assignment_id
                          /\ r.student_id = sub[p].student_id
                       THEN [r EXCEPT !.is_latest = FALSE] ELSE r : r \in submissions}
    /\ UNCHANGED <<classes, assignments, enrollments, fileStore,
                   now, seq, cls, codeHistory>>

\* step 5: check_submission_exists, whose scalar_one_or_none raises when the
\* pair has two or more rows; the exception is caught by the handler of
\* submit_assignment and returned as the generic failure
CheckResubmission(p) ==
    /\ sub[p].pc = "check_resubmission"
    /\ LET rows == PairRows(submissions, sub[p].assignment_id, sub[p].student_id)
           existing_submission ==
               CheckSubmissionExists(submissions, sub[p].assignment_id, sub[p].student_id)
       IN  IF MultipleResultsFound(rows) THEN Return(p, 5, "Failure")
           ELSE IF existing_submission /\ ~sub[p].assignment.allow_resubmission
                THEN Return(p, 5, "ResubmissionNotAllowed")
           ELSE sub' = [sub EXCEPT ![p].pc = "validate_file",
                                   ![p].existing_submission = existing_submission]
    /\ UNCHANGED <<classes, assignments, enrollments, submissions, fileStore,
                   now, seq, cls, codeHistory>>

\* variant of the size test that rejects the maximum itself
FileTooLarge_Inclusive(file_size) == file_size >= MAX_FILE_SIZE

\* the tests of step 6
FileTooLarge(file_size) == file_size > MAX_FILE_SIZE
FileEmpty(file_size) == file_size = 0

\* steps 6 and 7: file.read(), the size and the extension of the upload
ValidateFile(p) ==
    /\ sub[p].pc = "validate_file"
    /\ IF FileTooLarge(sub[p].file_size) THEN Return(p, 6, "FileTooLarge")
       ELSE IF FileEmpty(sub[p].file_size) THEN Return(p, 6, "FileEmpty")
       ELSE IF ~ValidateFileExtension(sub[p].filename,
                                      sub[p].assignment.programming_language)
            THEN Return(p, 7, "InvalidFileType")
       ELSE sub' = [sub EXCEPT ![p].pc = "save_file"]
    /\ UNCHANGED <<classes, assignments, enrollments, submissions, fileStore,
                   now, seq, cls, codeHistory>>

\* the storage key _save_file builds:
\* assignments/{assignment_id}/students/{student_id}/{student_id}_{assignment_id}_{uuid}{ext}
StoragePath(assignment_id, student_id, uuid, filename) ==
    [assignment_id |-> assignment_id, student_id |-> student_id,
     uuid |-> uuid, ext |-> Suffix(filename)]

\* step 8: _save_file uploads with upsert = false; uuid4 is a fresh value
SaveFile(p) ==
    /\ sub[p].pc = "save_file"
    /\ LET storage_path == StoragePath(sub[p].assignment_id, sub[p].student_id,
                                       seq.uuid, sub[p].filename)
       IN  IF storage_path \in fileStore
           THEN Return(p, 8, "Failure") /\ UNCHANGED fileStore
           ELSE /\ fileStore' = fileStore \cup {storage_path}
                /\ sub' = [sub EXCEPT ![p].pc = "get_history",
                                      ![p].file_path = storage_path]
    /\ seq' = [seq EXCEPT !.uuid = @ + 1]
    /\ UNCHANGED <<classes, assignments, enrollments, submissions, now, cls,
                   codeHistory>>

\* submission_number = len(existing_submissions) + 1
NextSubmissionNumber(existing_submissions) ==
    Cardinality(existing_submissions) + 1

\* step 9, create_submission: the history of the pair is read
GetSubmissionHistory(p) ==
    /\ sub[p].pc = "get_history"
    /\ LET existing_submissions ==
               PairRows(submissions, sub[p].assignment_id, sub[p].student_id)
       IN  sub' = [sub EXCEPT
                     ![p].pc = IF existing_submissions # {}
                               THEN "update_is_latest" ELSE "insert",
                     ![p].submission_number =
                         NextSubmissionNumber(existing_submissions)]
    /\ UNCHANGED <<classes, assignments, enrollments, submissions, fileStore,
                   now, seq, cls, codeHistory>>

\* variant of the UPDATE that matches no row
UpdateIsLatestFlags_NoRow(rows, assignment_id, student_id, is_latest) == rows

\* the UPDATE of _update_is_latest_flags: every row of the pair that is
\* committed at the instant of the statement gets the flag
UpdateIsLatestFlags(rows, assignment_id, student_id, is_latest) ==
    {IF r.assignment_id = assignment_id /\ r.student_id = student_id
     THEN [r EXCEPT !.is_latest = is_latest] ELSE r : r \in rows}

\* step 9, create_submission: _update_is_latest_flags and its commit
UpdateIsLatest(p) ==
    /\ sub[p].pc = "update_is_latest"
    /\ submissions' = UpdateIsLatestFlags(submissions, sub[p].assignment_id,
                                          sub[p].student_id, FALSE)
    /\ sub' = [sub EXCEPT
                 ![p].pc = "insert",
                 ![p].flipped =
                     {r.id : r \in {x \in PairRows(submissions, sub[p].assignment_id,
                                                   sub[p].student_id) : x.is_latest}}]
    /\ UNCHANGED <<classes, assignments, enrollments, fileStore, now, seq, cls,
                   codeHistory>>

\* the constraints of table submissions: uq_assignment_student_submission,
\* check_file_size, check_submission_number and the foreign key to assignments
SubmissionConstraints(rows, row) ==
    /\ ~\E r \in rows : /\ r.assignment_id = row.assignment_id
                        /\ r.student_id = row.student_id
                        /\ r.submission_number = row.submission_number
    /\ row.file_size > 0 /\ row.file_size <= MAX_DB_FILE_SIZE
    /\ row.submission_number > 0
    /\ \E a \in assignments : a.id = row.assignment_id

\* step 9, create_submission: db.add and commit of the new row; a violated
\* constraint raises, the insert is rolled back and the handler of
\* submit_assignment returns the generic failure
InsertSubmission(p) ==
    /\ sub[p].pc = "insert"
    /\ LET submission ==
               [id |-> seq.submission,
                assignment_id |-> sub[p].assignment_id,
                student_id |-> sub[p].student_id,
                file_name |-> sub[p].filename,
                file_path |-> sub[p].file_path,
                file_size |-> sub[p].file_size,
                submission_number |-> sub[p].submission_number,
                is_latest |-> TRUE]
       IN  IF SubmissionConstraints(submissions, submission)
           THEN /\ submissions' = submissions \cup {submission}
                /\ sub' = [sub EXCEPT ![p].pc = "done", ![p].step = 9,
                                      ![p].result = "Success",
                                      ![p].submission = submission]
           ELSE /\ Return(p, 9, "Failure")
                /\ UNCHANGED submissions
    /\ seq' = [seq EXCEPT !.submission = @ + 1]
    /\ UNCHANGED <<classes, assignments, enrollments, fileStore, now, cls,
                   codeHistory>>

\* the clock advances
Tick ==
    /\ now < MaxTime
    /\ now' = now + 1
    /\ UNCHANGED <<classes, assignments, enrollments, submissions, fileStore,
                   seq, sub, cls, codeHistory>>

\* every step of a submit call after its arrival
SubmitStep(p) ==
    \/ GetAssignment(p)
    \/ CheckEnrollment(p)
    \/ CheckDeadline(p)
    \/ CheckResubmission(p)
    \/ ValidateFile(p)
    \/ SaveFile(p)
    \/ GetSubmissionHistory(p)
    \/ UpdateIsLatest(p)
    \/ InsertSubmission(p)

----------------------------------------------------------------------------
(* The store the submission service runs on: one class with one            *)
(* assignment whose policy is any of the policies the schema allows;       *)
(* student 1 is enrolled and has not submitted, student 2 is not enrolled, *)
(* student 3 is enrolled and has submitted once.                           *)

InitSeq == [submission |-> 2, uuid |-> 2, class |-> 2, enrollment |-> 3,
            assignment |-> 2]

\* the class_name of the classes of the fixture and of create_class requests
ClassName == <<"C","S">>

FixtureClass ==
    [id |-> 1, teacher_id |-> 11, class_name |-> ClassName,
     class_code |-> <<"A","B","C","1","2","3">>, is_active |-> TRUE]

FixtureSubmission ==
    [id |-> 1, assignment_id |-> 1, student_id |-> 3,
     file_name |-> <<"a",".","p","y">>,
     file_path |-> StoragePath(1, 3, 1, <<"a",".","p","y">>),
     file_size |-> 1, submission_number |-> 1, is_latest |-> TRUE]

InitStore(langs, allows, actives) ==
    /\ classes = {FixtureClass}
    /\ \E lang \in langs, allow \in allows, active \in actives :
          assignments = {[id |-> 1, class_id |-> 1,
                          programming_language |-> lang, deadline |-> Deadline,
                          allow_resubmission |-> allow, is_active |-> active]}
    /\ enrollments = {[id |-> 1, student_id |-> 1, class_id |-> 1],
                      [id |-> 2, student_id |-> 3, class_id |-> 1]}
    /\ submissions = {FixtureSubmission}
    /\ fileStore = {FixtureSubmission.file_path}
    /\ now = 0
    /\ seq = InitSeq
    /\ sub = [p \in Procs |-> IdleSub]
    /\ cls = [p \in Procs |-> IdleCls]
    /\ codeHistory = {[id |-> FixtureClass.id, class_code |-> FixtureClass.class_code]}

Init == InitStore(Languages, BOOLEAN, BOOLEAN)

\* submit calls handled one at a time by one worker, each run to completion
Next ==
    \/ BeginSubmit(1, AssignmentIds, Students, FileNames, FileSizes)
    \/ SubmitStep(1)
    \/ Tick

Spec == Init /\ [][Next]_vars

----------------------------------------------------------------------------
(* ClassService.create_class and ClassService.delete_class *)

\* a return statement of a ClassService call
ReturnCls(p, kind) ==
    cls' = [cls EXCEPT ![p].pc = "done", ![p].result = kind]

\* ClassRepository.check_class_code_exists: get_class_by_code is not None
CheckClassCodeExists(rows, class_code) ==
    \E c \in rows : c.class_code = class_code

\* ''.join(random.choice(chars) for _ in range(length)): any code of the length
RandomCodes(length) == [1..length -> CodeChars]

\* the request arrives: teacher_id and the optional class_code
BeginCreateClass(p, teachers, codes) ==
    /\ cls[p].pc \in {"idle", "done"}
    /\ seq.class <= MaxClassId
    /\ \E t \in teachers, code \in codes :
          cls' = [cls EXCEPT ![p] =
                    [IdleCls EXCEPT !.op = "create_class",
                                    !.pc = IF code = << >> THEN "generate"
                                                           ELSE "check_code",
                                    !.teacher_id = t, !.class_code = code,
                                    !.length = DEFAULT_CODE_LENGTH,
                                    !.after = "check_code"]]
    /\ UNCHANGED <<classes, assignments, enrollments, submissions, fileStore,
                   now, seq, sub, codeHistory>>

\* a loop that gives up after its first candidate
AttemptsExhausted_First(attempt) == TRUE

\* for _ in range(max_attempts): the candidate just tried was the last one
AttemptsExhausted(attempt) == attempt + 1 = max_attempts

\* one iteration of the loop of generate_unique_class_code: a random code
\* and its existence check; after max_attempts collisions the function
\* calls itself with length + 1
GenerateUniqueClassCode(p) ==
    /\ cls[p].pc = "generate"
    /\ \E code \in RandomCodes(cls[p].length) :
          IF ~CheckClassCodeExists(classes, code)
          THEN cls' = [cls EXCEPT ![p].class_code = code,
                                  ![p].pc = cls[p].after]
          ELSE IF AttemptsExhausted(cls[p].attempt)
               THEN cls' = [cls EXCEPT ![p].length = @ + 1, ![p].attempt = 0]
               ELSE cls' = [cls EXCEPT ![p].attempt = @ + 1]
    /\ UNCHANGED <<classes, assignments, enrollments, submissions, fileStore,
                   now, seq, sub, codeHistory>>

\* create_class: the safety check of the code, regenerating on a duplicate
CheckCode(p) ==
    /\ cls[p].pc = "check_code"
    /\ IF CheckClassCodeExists(classes, cls[p].class_code)
       THEN cls' = [cls EXCEPT ![p].pc = "generate",
                               ![p].length = DEFAULT_CODE_LENGTH,
                               ![p].attempt = 0, ![p].after = "insert"]
       ELSE cls' = [cls EXCEPT ![p].pc = "insert"]
    /\ UNCHANGED <<classes, assignments, enrollments, submissions, fileStore,
                   now, seq, sub, codeHistory>>

\* the constraints of table classes: class_code is unique and String(20)
ClassConstraints(rows, row) ==
    /\ ~\E c \in rows : c.class_code = row.class_code
    /\ Len(row.class_code) <= CLASS_CODE_COLUMN_LENGTH

\* ClassRepository.create_class: db.add and commit; a violated constraint
\* raises and create_class returns the generic failure
InsertClass(p) ==
    /\ cls[p].pc = "insert"
    /\ LET new_class == [id |-> seq.class, teacher_id |-> cls[p].teacher_id,
                         class_name |-> ClassName,
                         class_code |-> cls[p].class_code, is_active |-> TRUE]
       IN  IF ClassConstraints(classes, new_class)
           THEN /\ classes' = classes \cup {new_class}
                /\ codeHistory' = codeHistory \cup
                      {[id |-> new_class.id, class_code |-> new_class.class_code]}
                /\ cls' = [cls EXCEPT ![p].pc = "count", ![p].class_id = new_class.id]
           ELSE /\ ReturnCls(p, "Failure")
                /\ UNCHANGED <<classes, codeHistory>>
    /\ seq' = [seq EXCEPT !.class = @ + 1]
    /\ UNCHANGED <<assignments, enrollments, submissions, fileStore, now, sub>>

\* a count over the enrollments of every class
GetStudentCount_AllClasses(class_id) == Cardinality(enrollments)

\* ClassRepository.get_student_count
GetStudentCount(class_id) ==
    Cardinality({e \in enrollments : e.class_id = class_id})

\* create_class: the student count of the response, and the return
CountStudents(p) ==
    /\ cls[p].pc = "count"
    /\ cls' = [cls EXCEPT ![p].pc = "done", ![p].result = "Success",
                          ![p].student_count = GetStudentCount(cls[p].class_id)]
    /\ UNCHANGED <<classes, assignments, enrollments, submissions, fileStore,
                   now, seq, sub, codeHistory>>

\* the request arrives: class_id and the teacher_id of the requester
BeginDeleteClass(p, ids, teachers) ==
    /\ cls[p].pc \in {"idle", "done"}
    /\ \E c \in ids, t \in teachers :
          cls' = [cls EXCEPT ![p] =
                    [IdleCls EXCEPT !.op = "delete_class", !.pc = "delete_get",
                                    !.teacher_id = t, !.class_id = c]]
    /\ UNCHANGED <<classes, assignments, enrollments, submissions, fileStore,
                   now, seq, sub, codeHistory>>

\* ClassService.delete_class: the class is loaded and the request checked
DeleteGetClass(p) ==
    /\ cls[p].pc = "delete_get"
    /\ LET rows == {c \in classes : c.id = cls[p].class_id}
       IN  IF rows = {} THEN ReturnCls(p, "NotFound")
           ELSE LET class_obj == CHOOSE c \in rows : TRUE
                IN  IF class_obj.teacher_id # cls[p].teacher_id
                    THEN ReturnCls(p, "Unauthorized")
                    ELSE IF ~class_obj.is_active
                    THEN ReturnCls(p, "AlreadyDeleted")
                    ELSE cls' = [cls EXCEPT ![p].pc = "delete_repo_get"]
    /\ UNCHANGED <<classes, assignments, enrollments, submissions, fileStore,
                   now, seq, sub, codeHistory>>

\* ClassRepository.delete_class: the class is loaded again
DeleteRepoGetClass(p) ==
    /\ cls[p].pc = "delete_repo_get"
    /\ IF \E c \in classes : c.id = cls[p].class_id
       THEN cls' = [cls EXCEPT ![p].pc = "delete_commit"]
       ELSE ReturnCls(p, "Failure")
    /\ UNCHANGED <<classes, assignments, enrollments, submissions, fileStore,
                   now, seq, sub, codeHistory>>

\* the rows db.delete(class_obj) removes: the class and, by the cascades of
\* the relationships, its assignments, its enrollments and the submissions
\* of its assignments
ClassesAfterDelete(class_id) == {c \in classes : c.id # class_id}
AssignmentsAfterDelete(class_id) == {a \in assignments : a.class_id # class_id}
EnrollmentsAfterDelete(class_id) == {e \in enrollments : e.class_id # class_id}
\* variant in which the submissions are not reached by the cascade
SubmissionsAfterDelete_Keep(class_id) == submissions

\* the submissions db.delete(class_obj) removes through the assignments
SubmissionsAfterDelete(class_id) ==
    {r \in submissions :
       ~\E a \in assignments : a.id = r.assignment_id /\ a.class_id = class_id}

\* ClassRepository.delete_class: db.delete and commit; deleting a row that
\* is gone raises and delete_class returns the generic failure
DeleteClassCommit(p) ==
    /\ cls[p].pc = "delete_commit"
    /\ IF \E c \in classes : c.id = cls[p].class_id
       THEN /\ classes' = ClassesAfterDelete(cls[p].class_id)
            /\ assignments' = AssignmentsAfterDelete(cls[p].class_id)
            /\ enrollments' = EnrollmentsAfterDelete(cls[p].class_id)
            /\ submissions' = SubmissionsAfterDelete(cls[p].class_id)
            /\ ReturnCls(p, "Success")
       ELSE /\ ReturnCls(p, "Failure")
            /\ UNCHANGED <<classes, assignments, enrollments, submissions>>
    /\ UNCHANGED <<fileStore, now, seq, sub, codeHistory>>

\* every step of a ClassService call after its arrival
ClassStep(p) ==
    \/ GenerateUniqueClassCode(p)
    \/ CheckCode(p)
    \/ InsertClass(p)
    \/ CountStudents(p)
    \/ DeleteGetClass(p)
    \/ DeleteRepoGetClass(p)
    \/ DeleteClassCommit(p)

(* create_class and delete_class calls handled one at a time by one        *)
(* worker, on the store of the fixture.                                    *)
InitClass == InitStore({"python"}, {TRUE}, {TRUE})

NextClass ==
    \/ BeginCreateClass(1, Teachers, SuppliedCodes)
    \/ BeginDeleteClass(1, 1..MaxClassId, Teachers)
    \/ ClassStep(1)

SpecClass == InitClass /\ [][NextClass]_vars

(* Two workers whose submit calls interleave at every awaited step.  Both  *)
(* submit for the pair (assignment 1, student 1) before the deadline; the  *)
(* assignment is active, in python, and allows resubmission.  The upload   *)
(* is a python file of one byte or (failing check 6) of zero bytes.        *)
InitConc == InitStore({"python"}, {TRUE}, {TRUE})

NextConc ==
    \/ \E p \in Procs : BeginSubmit(p, {1}, {1}, {<<"h","w",".","P","y">>}, {1, 0})
    \/ \E p \in Procs : SubmitStep(p)

SpecConc == InitConc /\ [][NextConc]_vars

----------------------------------------------------------------------------
(* Properties of submit_assignment *)

\* no call is between two of its steps
Quiescent == \A p \in Procs : sub[p].pc \in {"idle", "done"}

\* the (assignment, student) pairs that have rows
Pairs == {<<r.assignment_id, r.student_id>> : r \in submissions}

LatestRows(assignment_id, student_id) ==
    {r \in PairRows(submissions, assignment_id, student_id) : r.is_latest}

\* the call of worker p has returned
Done(p) == sub[p].pc = "done"

\* the number of rows the pair of the call had when the request arrived
PriorCount(p) ==
    Cardinality(PairRows(sub[p].pre, sub[p].assignment_id, sub[p].student_id))

\* the upload of the call passes checks 6 and 7 for the language of the
\* assignment the call has loaded
FileValid(p) ==
    /\ sub[p].file_size > 0
    /\ sub[p].file_size <= MAX_DB_FILE_SIZE
    /\ Lower(Suffix(sub[p].filename)) \in
          ALLOWED_EXTENSIONS(sub[p].assignment.programming_language)

\* C1: after submit calls that each ran to completion one at a time, every
\* pair with N >= 1 rows has exactly one row with is_latest = true, and the
\* submission_number of that row is N, the maximum of the pair.
C1_OneLatestWithMaxNumber ==
    Quiescent =>
      \A pair \in Pairs :
        LET rows == PairRows(submissions, pair[1], pair[2])
            latest == LatestRows(pair[1], pair[2])
        IN  /\ Cardinality(latest) = 1
            /\ \A r \in latest :
                  /\ r.submission_number = Cardinality(rows)
                  /\ \A x \in rows : x.submission_number <= r.submission_number

\* a resubmission has completed: the pair of student 1 has two rows
C1_Witness ==
    /\ Done(1) /\ sub[1].result = "Success"
    /\ Cardinality(PairRows(submissions, 1, 1)) = 2

\* C2: two submit calls on the same pair whose steps interleave never both
\* succeed with the same submission_number, and once both have finished
\* exactly one row of the pair has is_latest = true.
C2_ConcurrentSubmits ==
    Quiescent =>
      /\ \A p, q \in Procs :
            (/\ p # q
             /\ sub[p].result = "Success" /\ sub[q].result = "Success"
             /\ sub[p].assignment_id = sub[q].assignment_id
             /\ sub[p].student_id = sub[q].student_id)
            => sub[p].submission.submission_number # sub[q].submission.submission_number
      /\ \A pair \in Pairs : Cardinality(LatestRows(pair[1], pair[2])) = 1

\* C3: for a pair with N >= 1 prior rows, a submit with allow_resubmission
\* that passes all other checks succeeds, inserts row N + 1 with
\* is_latest = true, and leaves the N earlier rows with is_latest = false.
C3_ResubmissionSucceeds ==
    \A p \in Procs :
      (/\ Done(p)
       /\ sub[p].is_enrolled
       /\ sub[p].result # "DeadlinePassed"
       /\ sub[p].assignment.allow_resubmission
       /\ FileValid(p)
       /\ PriorCount(p) >= 1)
      => /\ sub[p].result = "Success"
         /\ sub[p].submission \in submissions
         /\ sub[p].submission.submission_number = PriorCount(p) + 1
         /\ sub[p].submission.is_latest
         /\ \A r \in PairRows(submissions, sub[p].assignment_id, sub[p].student_id) :
               r # sub[p].submission => ~r.is_latest

\* the error of the earliest failing check of the call, in the order
\* exists, active, enrolled, deadline, resubmission, size, extension
\* ("none" when every check passes)
EarliestFailingCheck(p) ==
    LET found == {a \in assignments : a.id = sub[p].assignment_id}
    IN  IF found = {} THEN "NotFound"
        ELSE LET a == CHOOSE x \in found : TRUE
             IN  IF ~a.is_active THEN "Inactive"
                 ELSE IF EnrollmentRows(sub[p].student_id, a.class_id) = {}
                      THEN "NotEnrolled"
                 ELSE IF ~(sub[p].current_time <= a.deadline)
                      THEN "DeadlinePassed"
                 ELSE IF PriorCount(p) >= 1 /\ ~a.allow_resubmission
                      THEN "ResubmissionNotAllowed"
                 ELSE IF sub[p].file_size > MAX_DB_FILE_SIZE THEN "FileTooLarge"
                 ELSE IF sub[p].file_size = 0 THEN "FileEmpty"
                 ELSE IF Lower(Suffix(sub[p].filename)) \notin
                           ALLOWED_EXTENSIONS(a.programming_language)
                      THEN "InvalidFileType"
                 ELSE "none"

\* C4: the checks are evaluated in the fixed order and, when a check
\* fails, the error returned is that of the earliest failing check.
C4_EarliestFailingCheckWins ==
    \A p \in Procs :
      (Done(p) /\ EarliestFailingCheck(p) # "none")
      => sub[p].result = EarliestFailingCheck(p)

\* C5 as stated: a submit to the (existing, active) assignment that arrives
\* after the deadline returns DeadlinePassed, enrolled or not, resubmission
\* allowed or not.
C5_DeadlinePassedRegardless ==
    \A p \in Procs :
      (/\ Done(p)
       /\ \E a \in assignments :
             a.id = sub[p].assignment_id /\ a.is_active /\ a.deadline < sub[p].arrival)
      => sub[p].result = "DeadlinePassed"

\* C5 amended: a submit by a student enrolled in the class of the
\* (existing, active) assignment that arrives after the deadline returns
\* DeadlinePassed, resubmission allowed or not, with or without prior rows.
C5_DeadlinePassedWhenEnrolled ==
    \A p \in Procs :
      (/\ Done(p)
       /\ \E a \in assignments :
             /\ a.id = sub[p].assignment_id /\ a.is_active
             /\ a.deadline < sub[p].arrival
             /\ EnrollmentRows(sub[p].student_id, a.class_id) # {})
      => sub[p].result = "DeadlinePassed"

\* an enrolled student with a prior row was turned away after the deadline
C5_Witness ==
    /\ Done(1) /\ sub[1].arrival > Deadline /\ sub[1].is_enrolled
    /\ PriorCount(1) >= 1
    /\ sub[1].result = "DeadlinePassed"

\* C6: a submit that fails a validation check has no side effect: no row is
\* inserted, no row changes, nothing is written to the file store.
C6_FailedValidationNoSideEffect ==
    \A p \in Procs :
      (Done(p) /\ sub[p].result \in ValidationErrors)
      => /\ submissions = sub[p].pre
         /\ fileStore = sub[p].preStore

\* a resubmission was refused while the pair had a row
C6_Witness ==
    /\ Done(1) /\ sub[1].result = "ResubmissionNotAllowed"
    /\ PriorCount(1) = 1
    /\ LatestRows(1, 1) # {}

\* C7: when the insert of the new row fails after the call has cleared
\* is_latest on the earlier rows of the pair, the flags the call cleared
\* are set again: the flip is not left committed.
C7_FailedInsertRestoresFlags ==
    [][\A p \in Procs :
         (/\ sub[p].pc = "insert"
          /\ sub'[p].pc = "done"
          /\ sub'[p].result = "Failure")
         => \A r \in submissions' : r.id \in sub[p].flipped => r.is_latest]_vars

\* C8 as stated: a submit whose deadline check runs at a time equal to the
\* deadline is rejected with DeadlinePassed.
C8_RejectedAtDeadline ==
    \A p \in Procs :
      (/\ Done(p) /\ sub[p].step >= 4
       /\ sub[p].current_time = sub[p].assignment.deadline)
      => sub[p].result = "DeadlinePassed"

\* C8 amended: the deadline check passes when now <= assignment.deadline;
\* a submit is rejected with DeadlinePassed exactly when its deadline
\* check runs at a time strictly after the deadline.
C8_RejectedOnlyAfterDeadline ==
    \A p \in Procs :
      (Done(p) /\ sub[p].step >= 4)
      => (sub[p].result = "DeadlinePassed"
            <=> sub[p].current_time > sub[p].assignment.deadline)

\* a submit checked exactly at the deadline was accepted
C8_Witness ==
    /\ Done(1) /\ sub[1].current_time = Deadline /\ sub[1].arrival = Deadline
    /\ sub[1].result = "Success"

\* C9: with the earlier checks passed, a file of 10,485,760 bytes is
\* accepted, one of 10,485,761 bytes gets FileTooLarge, one of 0 bytes gets
\* FileEmpty; every stored row has 1 <= file_size <= 10,485,760.
C9_FileSizeBoundary ==
    /\ \A p \in Procs :
         (Done(p) /\ sub[p].step >= 6)
         => /\ sub[p].file_size = 10485760 + 1 => sub[p].result = "FileTooLarge"
            /\ sub[p].file_size = 0 => sub[p].result = "FileEmpty"
            /\ sub[p].file_size = 10485760 =>
                  /\ sub[p].result \notin {"FileTooLarge", "FileEmpty"}
                  /\ FileValid(p) => sub[p].result = "Success"
    /\ \A r \in submissions : 1 <= r.file_size /\ r.file_size <= 10485760

\* a file of exactly 10,485,760 bytes was stored
C9_Witness ==
    /\ Done(1) /\ sub[1].result = "Success" /\ sub[1].file_size = 10485760
    /\ \E r \in submissions : r.file_size = 10485760 /\ r.student_id = 1

----------------------------------------------------------------------------
(* Properties of the class code *)

\* C10: across create_class and delete_class calls, class_code is unique
\* over every class ever stored, deleted classes included: a code once
\* assigned to a class is never assigned to another class.
C10_ClassCodeUniqueOverHistory ==
    \A h1, h2 \in codeHistory :
      h1.class_code = h2.class_code => h1.id = h2.id

----------------------------------------------------------------------------
(* Two workers whose create_class calls interleave at every awaited step *)

\* every step of a create_class call after its arrival
CreateClassStep(p) ==
    \/ GenerateUniqueClassCode(p)
    \/ CheckCode(p)
    \/ InsertClass(p)
    \/ CountStudents(p)

InitClassConc == InitStore({"python"}, {TRUE}, {TRUE})

NextClassConc ==
    \/ \E p \in Procs : BeginCreateClass(p, {11}, SuppliedCodes)
    \/ \E p \in Procs : CreateClassStep(p)

SpecClassConc == InitClassConc /\ [][NextClassConc]_vars

\* C11: when two create_class calls interleave so that both pass the
\* uniqueness pre-check with the same code, the call whose insert hits the
\* unique constraint on class_code regenerates a code, retries and ends in
\* success with a different code: no create_class call ends in the generic
\* failure, and a call never leaves the insert step with a failure.
C11_UniqueViolationRetried ==
    \A p \in Procs :
      (cls[p].op = "create_class" /\ cls[p].pc = "done")
      => /\ cls[p].result = "Success"
         /\ \E c \in classes : /\ c.id = cls[p].class_id
                               /\ c.class_code = cls[p].class_code

----------------------------------------------------------------------------
(* StudentDashboardService.join_class and leave_class, and                 *)
(* ClassService.remove_student, one action per awaited step                *)
\* Result kinds of these calls:
\*  "NotFound"          "Invalid class code. Please check and try again."
\*                      "Class not found"
\*  "Inactive"          "This class is no longer active."
\*  "AlreadyEnrolled"   "You are already enrolled in this class."
\*  "NotEnrolled"       "You are not enrolled in this class."
\*  "LeaveFailed"       "Failed to leave class. Please try again."
\*  "Unauthorized"      "Unauthorized to remove students from this class"
\*  "StudentNotInClass" "Student not found in this class"
\*  "Failure"           "Failed to join class: <exception>" and the like
\*  "NoResult"          the call ended without a return statement (None)

\* the operation, the arguments and the result of the call a worker ran
PrevOf(p) == <<cls[p].op, cls[p].student_id, cls[p].class_id, cls[p].result>>

\* table enrollments without uq_student_class
EnrollmentConstraints_NotUnique(rows, row) ==
    \E c \in classes : c.id = row.class_id

\* the constraints of table enrollments: uq_student_class and the foreign
\* key to classes
EnrollmentConstraints(rows, row) ==
    /\ ~\E e \in rows : /\ e.student_id = row.student_id
                        /\ e.class_id = row.class_id
    /\ \E c \in classes : c.id = row.class_id

\* the request arrives: student_id and class_code
BeginJoin(p, sids, codes) ==
    /\ cls[p].pc \in {"idle", "done"}
    /\ seq.enrollment <= MaxEnrollmentId
    /\ \E s \in sids, code \in codes :
          cls' = [cls EXCEPT ![p] =
                    [IdleCls EXCEPT !.op = "join_class", !.pc = "join_get",
                                    !.student_id = s, !.class_code = code,
                                    !.pre = enrollments, !.prev = PrevOf(p)]]
    /\ UNCHANGED <<classes, assignments, enrollments, submissions, fileStore,
                   now, seq, sub, codeHistory>>

\* join_class: get_class_by_code, and the tests on the class
JoinGetClass(p) ==
    /\ cls[p].pc = "join_get"
    /\ LET rows == {c \in classes : c.class_code = cls[p].class_code}
       IN  IF MultipleResultsFound(rows) THEN ReturnCls(p, "Failure")
           ELSE IF rows = {} THEN ReturnCls(p, "NotFound")
           ELSE LET class_obj == CHOOSE c \in rows : TRUE
                IN  IF ~class_obj.is_active THEN ReturnCls(p, "Inactive")
                    ELSE cls' = [cls EXCEPT ![p].pc = "join_check",
                                            ![p].class_id = class_obj.id]
    /\ UNCHANGED <<classes, assignments, enrollments, submissions, fileStore,
                   now, seq, sub, codeHistory>>

\* join_class: check_enrollment_exists
JoinCheckEnrollment(p) ==
    /\ cls[p].pc = "join_check"
    /\ LET rows == EnrollmentRows(cls[p].student_id, cls[p].class_id)
       IN  IF MultipleResultsFound(rows) THEN ReturnCls(p, "Failure")
           ELSE IF rows # {} THEN ReturnCls(p, "AlreadyEnrolled")
           ELSE cls' = [cls EXCEPT ![p].pc = "join_insert"]
    /\ UNCHANGED <<classes, assignments, enrollments, submissions, fileStore,
                   now, seq, sub, codeHistory>>

\* EnrollmentRepository.create_enrollment: db.add and commit; a violated
\* constraint raises and join_class returns "Failed to join class: ..."
JoinCreateEnrollment(p) ==
    /\ cls[p].pc = "join_insert"
    /\ LET enrollment == [id |-> seq.enrollment,
                          student_id |-> cls[p].student_id,
                          class_id |-> cls[p].class_id]
       IN  IF EnrollmentConstraints(enrollments, enrollment)
           THEN /\ enrollments' = enrollments \cup {enrollment}
                /\ cls' = [cls EXCEPT ![p].pc = "join_count",
                                      ![p].enrollment_id = enrollment.id]
           ELSE /\ ReturnCls(p, "Failure")
                /\ UNCHANGED enrollments
    /\ seq' = [seq EXCEPT !.enrollment = @ + 1]
    /\ UNCHANGED <<classes, assignments, submissions, fileStore, now, sub,
                   codeHistory>>

\* join_class: get_student_count for the response, and the return
JoinCountStudents(p) ==
    /\ cls[p].pc = "join_count"
    /\ cls' = [cls EXCEPT ![p].pc = "done", ![p].result = "Success",
                          ![p].student_count = GetStudentCount(cls[p].class_id)]
    /\ UNCHANGED <<classes, assignments, enrollments, submissions, fileStore,
                   now, seq, sub, codeHistory>>

\* the request arrives: student_id and class_id
BeginLeave(p, sids, ids) ==
    /\ cls[p].pc \in {"idle", "done"}
    /\ \E s \in sids, c \in ids :
          cls' = [cls EXCEPT ![p] =
                    [IdleCls EXCEPT !.op = "leave_class", !.pc = "leave_check",
                                    !.student_id = s, !.class_id = c,
                                    !.pre = enrollments, !.prev = PrevOf(p)]]
    /\ UNCHANGED <<classes, assignments, enrollments, submissions, fileStore,
                   now, seq, sub, codeHistory>>

\* leave_class: check_enrollment_exists
LeaveCheckEnrollment(p) ==
    /\ cls[p].pc = "leave_check"
    /\ LET rows == EnrollmentRows(cls[p].student_id, cls[p].class_id)
       IN  IF MultipleResultsFound(rows) THEN ReturnCls(p, "Failure")
           ELSE IF rows = {} THEN ReturnCls(p, "NotEnrolled")
           ELSE cls' = [cls EXCEPT ![p].pc = "leave_get"]
    /\ UNCHANGED <<classes, assignments, enrollments, submissions, fileStore,
                   now, seq, sub, codeHistory>>

\* EnrollmentRepository.delete_enrollment: get_enrollment; without a row
\* it returns False
LeaveGetEnrollment(p) ==
    /\ cls[p].pc = "leave_get"
    /\ LET rows == EnrollmentRows(cls[p].student_id, cls[p].class_id)
       IN  IF MultipleResultsFound(rows) THEN ReturnCls(p, "Failure")
           ELSE IF rows = {} THEN ReturnCls(p, "LeaveFailed")
           ELSE cls' = [cls EXCEPT ![p].pc = "leave_delete",
                                   ![p].enrollment_id =
                                       (CHOOSE e \in rows : TRUE).id]
    /\ UNCHANGED <<classes, assignments, enrollments, submissions, fileStore,
                   now, seq, sub, codeHistory>>

\* a delete that removes no row
EnrollmentsAfterLeave_Keep(enrollment_id) == enrollments

\* the rows left by db.delete(enrollment) and the commit.  The DELETE
\* names the primary key; when the row is gone it matches nothing, which
\* the ORM reports with a warning only.
EnrollmentsAfterLeave(enrollment_id) ==
    {e \in enrollments : e.id # enrollment_id}

\* EnrollmentRepository.delete_enrollment: db.delete, commit, return True
LeaveDeleteCommit(p) ==
    /\ cls[p].pc = "leave_delete"
    /\ enrollments' = EnrollmentsAfterLeave(cls[p].enrollment_id)
    /\ ReturnCls(p, "Success")
    /\ UNCHANGED <<classes, assignments, submissions, fileStore, now, seq,
                   sub, codeHistory>>

\* the request arrives: class_id, student_id and the requesting teacher_id
BeginRemoveStudent(p, ids, sids, teachers) ==
    /\ cls[p].pc \in {"idle", "done"}
    /\ \E c \in ids, s \in sids, t \in teachers :
          cls' = [cls EXCEPT ![p] =
                    [IdleCls EXCEPT !.op = "remove_student",
                                    !.pc = "remove_get",
                                    !.class_id = c, !.student_id = s,
                                    !.teacher_id = t,
                                    !.pre = enrollments, !.prev = PrevOf(p)]]
    /\ UNCHANGED <<classes, assignments, enrollments, submissions, fileStore,
                   now, seq, sub, codeHistory>>

\* the test of remove_student on the owner of the class
RemoveStudentAuthorized_Anyone(class_obj, teacher_id) == TRUE

RemoveStudentAuthorized(class_obj, teacher_id) ==
    class_obj.teacher_id = teacher_id

\* remove_student: get_class_by_id, and the tests on the class
RemoveStudentGetClass(p) ==
    /\ cls[p].pc = "remove_get"
    /\ LET rows == {c \in classes : c.id = cls[p].class_id}
       IN  IF rows = {} THEN ReturnCls(p, "NotFound")
           ELSE IF ~RemoveStudentAuthorized(CHOOSE c \in rows : TRUE,
                                            cls[p].teacher_id)
           THEN ReturnCls(p, "Unauthorized")
           ELSE cls' = [cls EXCEPT ![p].pc = "remove_repo"]
    /\ UNCHANGED <<classes, assignments, enrollments, submissions, fileStore,
                   now, seq, sub, codeHistory>>

\* ClassRepository.remove_student(class_id, student_id), which
\* "behaves like leave": the enrollment of the pair is deleted; the call
\* returns whether there was one
EnrollmentsAfterRemove(class_id, student_id) ==
    enrollments \ EnrollmentRows(student_id, class_id)

\* remove_student: the call of the repository and the return
RemoveStudentRepo(p) ==
    /\ cls[p].pc = "remove_repo"
    /\ LET success == EnrollmentRows(cls[p].student_id, cls[p].class_id) # {}
       IN  /\ enrollments' = EnrollmentsAfterRemove(cls[p].class_id,
                                                    cls[p].student_id)
           /\ ReturnCls(p, IF success THEN "Success" ELSE "StudentNotInClass")
    /\ UNCHANGED <<classes, assignments, submissions, fileStore, now, seq,
                   sub, codeHistory>>

\* every step of a join_class, leave_class or remove_student call after
\* its arrival
EnrollmentStep(p) ==
    \/ JoinGetClass(p)
    \/ JoinCheckEnrollment(p)
    \/ JoinCreateEnrollment(p)
    \/ JoinCountStudents(p)
    \/ LeaveCheckEnrollment(p)
    \/ LeaveGetEnrollment(p)
    \/ LeaveDeleteCommit(p)
    \/ RemoveStudentGetClass(p)
    \/ RemoveStudentRepo(p)

----------------------------------------------------------------------------
(* The store the enrollment and assignment operations run on: the class    *)
(* of the fixture and a class whose is_active is false; student 1 is       *)
(* enrolled in class 1, student 2 in no class, student 3 in both classes.  *)

InactiveClass ==
    [id |-> 2, teacher_id |-> 12, class_name |-> ClassName,
     class_code |-> <<"O","L","D","0","0","1">>, is_active |-> FALSE]

\* the ids of the classes 1 and 2 of the store, and one more
ClassIds == {FixtureClass.id, InactiveClass.id, InactiveClass.id + 1}

\* the class codes a join request carries: of class 1, of class 2, of none
JoinCodes == {FixtureClass.class_code, InactiveClass.class_code,
              <<"N","O","N","E","0","0">>}

InitEnroll ==
    /\ classes = {FixtureClass, InactiveClass}
    /\ assignments = {[id |-> 1, class_id |-> 1,
                       programming_language |-> "python",
                       deadline |-> Deadline,
                       allow_resubmission |-> TRUE, is_active |-> TRUE]}
    /\ enrollments = {[id |-> 1, student_id |-> 1, class_id |-> 1],
                      [id |-> 2, student_id |-> 3, class_id |-> 1],
                      [id |-> 3, student_id |-> 3, class_id |-> 2]}
    /\ submissions = {FixtureSubmission}
    /\ fileStore = {FixtureSubmission.file_path}
    /\ now = 0
    /\ seq = [InitSeq EXCEPT !.class = InactiveClass.id + 1,
                             !.enrollment = @ + 1]
    /\ sub = [p \in Procs |-> IdleSub]
    /\ cls = [p \in Procs |-> IdleCls]
    /\ codeHistory = {[id |-> c.id, class_code |-> c.class_code] :
                        c \in {FixtureClass, InactiveClass}}

\* join, leave and remove_student calls handled one at a time by one worker
NextEnroll ==
    \/ BeginJoin(1, Students, JoinCodes)
    \/ BeginLeave(1, Students, ClassIds)
    \/ BeginRemoveStudent(1, ClassIds, Students, Teachers)
    \/ EnrollmentStep(1)

SpecEnroll == InitEnroll /\ [][NextEnroll]_vars

\* two workers whose join, leave and remove_student calls for student 2
\* and class 1 interleave at every awaited step
NextEnrollConc ==
    \/ \E p \in Procs : BeginJoin(p, {2}, {FixtureClass.class_code})
    \/ \E p \in Procs : BeginLeave(p, {2}, {FixtureClass.id})
    \/ \E p \in Procs : BeginRemoveStudent(p, {FixtureClass.id}, {2},
                                            {FixtureClass.teacher_id})
    \/ \E p \in Procs : EnrollmentStep(p)

SpecEnrollConc == InitEnroll /\ [][NextEnrollConc]_vars

----------------------------------------------------------------------------
(* Properties of the enrollment operations *)

\* C12: when two join calls for the same (student, class) interleave so
\* that both pass the already-enrolled pre-check, the call whose insert
\* violates the unique (student_id, class_id) constraint returns
\* AlreadyEnrolled, as a sequential second join does: no join call ends in
\* the generic failure.
C12_UniqueViolationIsAlreadyEnrolled ==
    \A p \in Procs :
      (cls[p].op = "join_class" /\ cls[p].pc = "done")
      => cls[p].result \in {"Success", "AlreadyEnrolled", "NotFound",
                            "Inactive"}

\* C13: in every reachable state, under any interleaving of join, leave
\* and remove_student calls, there is at most one Enrollment row for each
\* (student_id, class_id) pair.
C13_OneEnrollmentPerPair ==
    \A e1, e2 \in enrollments :
      (e1.student_id = e2.student_id /\ e1.class_id = e2.class_id)
      => e1 = e2

\* two interleaved joins both passed the pre-check; one inserted its row
\* and the insert of the other one was refused
C13_Witness ==
    \E p, q \in Procs :
      /\ p # q
      /\ cls[p].op = "join_class" /\ cls[q].op = "join_class"
      /\ cls[p].pc = "done" /\ cls[p].result = "Failure"
      /\ cls[q].enrollment_id # 0
      /\ \E e \in enrollments : /\ e.id = cls[q].enrollment_id
                                /\ e.student_id = cls[p].student_id
                                /\ e.class_id = cls[p].class_id

\* the classes that carry the class_code of a join call
ClassesOfCode(p) == {c \in classes : c.class_code = cls[p].class_code}

\* C14: join(student_id, code) fails with NotFound if no class has the
\* code, else with Inactive if the class is not active, else with
\* AlreadyEnrolled if an Enrollment of (student_id, class.id) exists, each
\* failure leaving the enrollments unchanged; otherwise it inserts exactly
\* that one Enrollment and returns a student count equal to the number of
\* Enrollment rows of the class after the insert.
C14_JoinOutcomes ==
    \A p \in Procs :
      (cls[p].op = "join_class" /\ cls[p].pc = "done")
      => IF ClassesOfCode(p) = {}
         THEN cls[p].result = "NotFound" /\ enrollments = cls[p].pre
         ELSE LET class_obj == CHOOSE c \in ClassesOfCode(p) : TRUE
              IN  IF ~class_obj.is_active
                  THEN cls[p].result = "Inactive" /\ enrollments = cls[p].pre
                  ELSE IF \E e \in cls[p].pre :
                             /\ e.student_id = cls[p].student_id
                             /\ e.class_id = class_obj.id
                  THEN /\ cls[p].result = "AlreadyEnrolled"
                       /\ enrollments = cls[p].pre
                  ELSE /\ cls[p].result = "Success"
                       /\ cls[p].pre \subseteq enrollments
                       /\ \E e \in enrollments \ cls[p].pre :
                             /\ enrollments \ cls[p].pre = {e}
                             /\ e.student_id = cls[p].student_id
                             /\ e.class_id = class_obj.id
                       /\ cls[p].student_count =
                             Cardinality({e \in enrollments :
                                            e.class_id = class_obj.id})

\* student 2 joined class 1 and is its third student
C14_Witness ==
    /\ cls[1].op = "join_class" /\ cls[1].pc = "done"
    /\ cls[1].result = "Success" /\ cls[1].student_id = 2
    /\ cls[1].student_count =
          Cardinality({e \in enrollments : e.class_id = FixtureClass.id})
    /\ cls[1].student_count > 2
    /\ \E e \in enrollments \ cls[1].pre :
          e.student_id = 2 /\ e.class_id = FixtureClass.id

\* C15: for an enrolled student, leave called twice in a row for the same
\* (student, class) returns success the first time and NotEnrolled the
\* second time; leave on a pair with no Enrollment row always fails with
\* NotEnrolled and changes nothing.
C15_LeaveTwice ==
    \A p \in Procs :
      (cls[p].op = "leave_class" /\ cls[p].pc = "done")
      => LET enrolled == \E e \in cls[p].pre :
                             /\ e.student_id = cls[p].student_id
                             /\ e.class_id = cls[p].class_id
         IN  /\ enrolled =>
                   /\ cls[p].result = "Success"
                   /\ EnrollmentRows(cls[p].student_id, cls[p].class_id) = {}
             /\ ~enrolled =>
                   /\ cls[p].result = "NotEnrolled"
                   /\ enrollments = cls[p].pre
             /\ cls[p].prev = <<"leave_class", cls[p].student_id,
                                cls[p].class_id, "Success">>
                   => cls[p].result = "NotEnrolled"

\* the second of two leave calls in a row of an enrolled student ended
C15_Witness ==
    /\ cls[1].op = "leave_class" /\ cls[1].pc = "done"
    /\ cls[1].prev = <<"leave_class", cls[1].student_id, cls[1].class_id,
                       "Success">>
    /\ cls[1].result = "NotEnrolled"

\* the Enrollment rows of the pair of a call in the table as the call
\* found it
PreRows(p) ==
    {e \in cls[p].pre : /\ e.student_id = cls[p].student_id
                        /\ e.class_id = cls[p].class_id}

\* C16: remove_student(class_id, student_id, requesting_teacher_id) fails
\* with Unauthorized and leaves every Enrollment unchanged whenever the
\* requesting teacher is not the owner of the class; for the owner it
\* behaves like leave: it deletes the Enrollment of the pair if present
\* and otherwise fails reporting that the student is not in the class.
C16_RemoveStudentOutcomes ==
    \A p \in Procs :
      (cls[p].op = "remove_student" /\ cls[p].pc = "done")
      => \A c \in classes :
           c.id = cls[p].class_id
           => IF c.teacher_id # cls[p].teacher_id
              THEN cls[p].result = "Unauthorized" /\ enrollments = cls[p].pre
              ELSE IF PreRows(p) # {}
              THEN /\ cls[p].result = "Success"
                   /\ enrollments = cls[p].pre \ PreRows(p)
              ELSE /\ cls[p].result = "StudentNotInClass"
                   /\ enrollments = cls[p].pre

\* the owner of class 1 removed an enrolled student
C16_Witness ==
    /\ cls[1].op = "remove_student" /\ cls[1].pc = "done"
    /\ cls[1].result = "Success" /\ PreRows(1) # {}
    /\ cls[1].teacher_id = FixtureClass.teacher_id
    /\ EnrollmentRows(cls[1].student_id, cls[1].class_id) = {}

----------------------------------------------------------------------------
(* Failures of the storage and persistence adapters *)

\* the numbered step of submit_assignment a position belongs to
StepOf(pc) == IF pc = "save_file" THEN 8 ELSE 9

\* submit_assignment: the awaited call of _save_file or of
\* create_submission raises; the handler of submit_assignment returns
\* (False, "Failed to submit assignment: ...", {})
SubmitAdapterRaises(p) ==
    /\ sub[p].pc \in {"save_file", "get_history", "update_is_latest",
                       "insert"}
    /\ seq.uuid <= MaxUuid
    /\ Return(p, StepOf(sub[p].pc), "Failure")
    /\ UNCHANGED <<classes, assignments, enrollments, submissions, fileStore,
                   now, seq, cls, codeHistory>>

\* remove_student: the awaited call of get_class_by_id or of
\* remove_student of the repository raises; the handler rolls back and
\* the function ends without a return statement
RemoveStudentAdapterRaises(p) ==
    /\ cls[p].pc \in {"remove_get", "remove_repo"}
    /\ ReturnCls(p, "NoResult")
    /\ UNCHANGED <<classes, assignments, enrollments, submissions, fileStore,
                   now, seq, sub, codeHistory>>

\* worker 1 runs submit calls and worker 2 remove_student calls while the
\* adapters may fail
NextFault ==
    \/ BeginSubmit(1, {1}, {1}, {<<"h","w",".","P","y">>}, {1})
    \/ SubmitStep(1)
    \/ SubmitAdapterRaises(1)
    \/ BeginRemoveStudent(2, {FixtureClass.id}, Students, Teachers)
    \/ RemoveStudentGetClass(2)
    \/ RemoveStudentRepo(2)
    \/ RemoveStudentAdapterRaises(2)

SpecFault == InitEnroll /\ [][NextFault]_vars

\* C17: every service operation, on every path including the path where
\* the persistence or storage adapter raises, returns a (success, message,
\* payload) result, a failure with success = false and a non-empty
\* message: no call ends without a result.  Every kind but "NoResult"
\* names a return statement with a message.
C17_EveryCallReturnsAResult ==
    \A p \in Procs :
      /\ sub[p].pc = "done" => sub[p].result \notin {"none", "NoResult"}
      /\ cls[p].pc = "done" => cls[p].result \notin {"none", "NoResult"}

----------------------------------------------------------------------------
(* The download endpoint, get_submission_download_url *)
\* Result kinds of the endpoint:
\*  "NotFound"      404 "Submission not found"
\*  "Unauthorized"  403 "You don't have permission to access this submission"
\*  "Failure"       500 "Failed to generate download URL: <exception>"
\*  "Success"       "Download URL generated successfully"

\* the request arrives: submission_id and the query parameter student_id
BeginDownload(p, ids, requesters) ==
    /\ cls[p].pc \in {"idle", "done"}
    /\ \E i \in ids, r \in requesters :
          cls' = [cls EXCEPT ![p] =
                    [IdleCls EXCEPT !.op = "download_url",
                                    !.pc = "download_get",
                                    !.submission_id = i, !.student_id = r]]
    /\ UNCHANGED <<classes, assignments, enrollments, submissions, fileStore,
                   now, seq, sub, codeHistory>>

\* an endpoint that tests nothing
DownloadAuthorized_Anyone(submission, student_id) == TRUE

\* the authorization test of the endpoint
DownloadAuthorized(submission, student_id) ==
    submission.student_id = student_id

\* get_file_download_url: the signed URL of a stored object
SignedUrl(file_path) ==
    [path |-> file_path, expires_in |-> DOWNLOAD_URL_EXPIRES_IN]

\* get_submission_by_id, the tests on the submission and the signed URL,
\* which the endpoint builds without another await; pre is the table the
\* query read
GetSubmissionDownloadUrl(p) ==
    /\ cls[p].pc = "download_get"
    /\ LET rows == {r \in submissions : r.id = cls[p].submission_id}
       IN  IF rows = {}
           THEN cls' = [cls EXCEPT ![p].pc = "done", ![p].pre = submissions,
                                   ![p].result = "NotFound"]
           ELSE LET submission == CHOOSE r \in rows : TRUE
                IN  IF ~DownloadAuthorized(submission, cls[p].student_id)
                    THEN cls' = [cls EXCEPT ![p].pc = "done",
                                            ![p].pre = submissions,
                                            ![p].result = "Unauthorized"]
                    ELSE IF submission.file_path \notin fileStore
                    THEN cls' = [cls EXCEPT ![p].pc = "done",
                                            ![p].pre = submissions,
                                            ![p].result = "Failure"]
                    ELSE cls' = [cls EXCEPT
                                   ![p].pc = "done", ![p].pre = submissions,
                                   ![p].result = "Success",
                                   ![p].url = SignedUrl(submission.file_path)]
    /\ UNCHANGED <<classes, assignments, enrollments, submissions, fileStore,
                   now, seq, sub, codeHistory>>

\* the ids a download request names: of the stored submissions and one more
SubmissionIds == 1..(InitSeq.submission + 1)

\* the users that send download requests: student 1, student 3, who owns
\* the submission of the fixture, and the teacher of class 1
Requesters == Students \cup {FixtureSubmission.student_id,
                             FixtureClass.teacher_id}

\* worker 1 runs submit calls of student 1 while worker 2 runs download
\* requests
NextDownload ==
    \/ BeginSubmit(1, {1}, {1}, {<<"h","w",".","P","y">>}, {1})
    \/ SubmitStep(1)
    \/ BeginDownload(2, SubmissionIds, Requesters)
    \/ GetSubmissionDownloadUrl(2)

SpecDownload == InitConc /\ [][NextDownload]_vars

C19_TeacherDownloads ==
    \A p \in Procs :
      (cls[p].op = "download_url" /\ cls[p].pc = "done")
      => \A r \in cls[p].pre, a \in assignments, c \in classes :
           (/\ r.id = cls[p].submission_id
            /\ a.id = r.assignment_id /\ c.id = a.class_id
            /\ c.teacher_id = cls[p].student_id
            /\ r.file_path \in fileStore)
           => /\ cls[p].result = "Success"
              /\ cls[p].url = SignedUrl(r.file_path)

----------------------------------------------------------------------------
(* ClassService.create_assignment *)
\* Result kinds of create_assignment:
\*  "NotFound"        "Class not found"
\*  "ClassDeleted"    "Class has been deleted"
\*  "Unauthorized"    "Unauthorized to create assignments for this class"
\*  "InvalidDeadline" "Deadline must be in the future"
\*  "InvalidLanguage" "Invalid programming language. Must be 'python' or 'java'"
\*  "Failure"         "Failed to create assignment: <exception>"
\*  "Success"         "Assignment created successfully"

\* the values of the enum ProgrammingLanguage, as strings of characters
PYTHON == <<"p","y","t","h","o","n">>
JAVA == <<"j","a","v","a">>

\* ProgrammingLanguage(programming_language.lower()): the member of the
\* enum, or "none" where the constructor raises ValueError
ProgrammingLanguage(programming_language) ==
    IF Lower(programming_language) = PYTHON THEN "python"
    ELSE IF Lower(programming_language) = JAVA THEN "java"
    ELSE "none"

\* a test that lets a deadline equal to now pass
DeadlineNotInFuture_Exclusive(deadline, current_time) == deadline < current_time

\* the test of create_assignment on the deadline
DeadlineNotInFuture(deadline, current_time) == deadline <= current_time

\* the programming_language a create_assignment request carries
LanguageInputs == {PYTHON, <<"J","a","v","a">>, <<"r","u","b","y">>}

\* the request arrives: class_id, teacher_id, programming_language and
\* deadline
BeginCreateAssignment(p, ids, teachers, langs, deadlines) ==
    /\ cls[p].pc \in {"idle", "done"}
    /\ seq.assignment <= MaxAssignmentId
    /\ \E c \in ids, t \in teachers, lang \in langs, d \in deadlines :
          cls' = [cls EXCEPT ![p] =
                    [IdleCls EXCEPT !.op = "create_assignment",
                                    !.pc = "assignment_get",
                                    !.class_id = c, !.teacher_id = t,
                                    !.programming_language = lang,
                                    !.deadline = d, !.pre = assignments]]
    /\ UNCHANGED <<classes, assignments, enrollments, submissions, fileStore,
                   now, seq, sub, codeHistory>>

\* create_assignment: get_class_by_id and the tests that follow it without
\* another await: the class, the owner, the deadline against
\* datetime.now, the language
CreateAssignmentGetClass(p) ==
    /\ cls[p].pc = "assignment_get"
    /\ LET rows == {c \in classes : c.id = cls[p].class_id}
       IN  IF rows = {} THEN ReturnCls(p, "NotFound")
           ELSE LET class_obj == CHOOSE c \in rows : TRUE
                IN  IF ~class_obj.is_active THEN ReturnCls(p, "ClassDeleted")
                    ELSE IF class_obj.teacher_id # cls[p].teacher_id
                    THEN ReturnCls(p, "Unauthorized")
                    ELSE IF DeadlineNotInFuture(cls[p].deadline, now)
                    THEN cls' = [cls EXCEPT ![p].pc = "done",
                                            ![p].current_time = now,
                                            ![p].result = "InvalidDeadline"]
                    ELSE IF ProgrammingLanguage(cls[p].programming_language)
                              = "none"
                    THEN cls' = [cls EXCEPT ![p].pc = "done",
                                            ![p].current_time = now,
                                            ![p].result = "InvalidLanguage"]
                    ELSE cls' = [cls EXCEPT ![p].pc = "assignment_insert",
                                            ![p].current_time = now]
    /\ UNCHANGED <<classes, assignments, enrollments, submissions, fileStore,
                   now, seq, sub, codeHistory>>

\* AssignmentRepository.create_assignment: db.add with is_active = True,
\* and commit; a violated foreign key raises and create_assignment returns
\* the generic failure
CreateAssignmentInsert(p) ==
    /\ cls[p].pc = "assignment_insert"
    /\ LET new_assignment ==
             [id |-> seq.assignment, class_id |-> cls[p].class_id,
              programming_language |->
                  ProgrammingLanguage(cls[p].programming_language),
              deadline |-> cls[p].deadline,
              allow_resubmission |-> TRUE, is_active |-> TRUE]
       IN  IF \E c \in classes : c.id = new_assignment.class_id
           THEN /\ assignments' = assignments \cup {new_assignment}
                /\ cls' = [cls EXCEPT ![p].pc = "done",
                                      ![p].result = "Success",
                                      ![p].assignment_id = new_assignment.id]
           ELSE /\ ReturnCls(p, "Failure")
                /\ UNCHANGED assignments
    /\ seq' = [seq EXCEPT !.assignment = @ + 1]
    /\ UNCHANGED <<classes, enrollments, submissions, fileStore, now, sub,
                   codeHistory>>

\* create_assignment calls handled one at a time by one worker while the
\* clock advances
NextAssign ==
    \/ BeginCreateAssignment(1, ClassIds, Teachers, LanguageInputs, 0..MaxTime)
    \/ CreateAssignmentGetClass(1)
    \/ CreateAssignmentInsert(1)
    \/ Tick

SpecAssign == InitEnroll /\ [][NextAssign]_vars

----------------------------------------------------------------------------
(* Properties of create_assignment *)

----------------------------------------------------------------------------
(* ClassService.update_assignment and ClassService.delete_assignment *)
\* Result kinds of these calls:
\*  "NotFound"          "Assignment not found"
\*  "AssignmentDeleted" "Assignment has been deleted"
\*  "Unauthorized"      "Unauthorized to update this assignment"
\*  "InvalidDeadline"   "Deadline must be in the future"
\*  "InvalidLanguage"   "Invalid programming language. Must be ..."
\*  "NoFieldsToUpdate"  "No fields to update"
\*  "UpdateFailed"      "Failed to update assignment"
\*  "DeleteFailed"      "Failed to delete assignment"
\*  "Failure"           "Failed to update assignment: <exception>"
\*  "Success"           "Assignment updated successfully"

\* the request arrives: assignment_id, teacher_id and the optional fields
BeginUpdateAssignment(p, aids, teachers, langs, deadlines, allows) ==
    /\ cls[p].pc \in {"idle", "done"}
    /\ \E a \in aids, t \in teachers, lang \in langs, d \in deadlines,
          allow \in allows :
          cls' = [cls EXCEPT ![p] =
                    [IdleCls EXCEPT !.op = "update_assignment",
                                    !.pc = "update_get",
                                    !.assignment_id = a, !.teacher_id = t,
                                    !.supplied =
                                       [programming_language |-> lang,
                                        deadline |-> d,
                                        allow_resubmission |-> allow],
                                    !.pre = assignments]]
    /\ UNCHANGED <<classes, assignments, enrollments, submissions, fileStore,
                   now, seq, sub, codeHistory>>

\* update_assignment: get_assignment_by_id and the tests on the assignment
UpdateAssignmentGet(p) ==
    /\ cls[p].pc = "update_get"
    /\ LET rows == {a \in assignments : a.id = cls[p].assignment_id}
       IN  IF rows = {} THEN ReturnCls(p, "NotFound")
           ELSE LET assignment == CHOOSE a \in rows : TRUE
                IN  IF ~assignment.is_active
                    THEN ReturnCls(p, "AssignmentDeleted")
                    ELSE cls' = [cls EXCEPT ![p].pc = "update_get_class",
                                            ![p].class_id = assignment.class_id]
    /\ UNCHANGED <<classes, assignments, enrollments, submissions, fileStore,
                   now, seq, sub, codeHistory>>

\* update_data: the supplied fields that are written, the language as the
\* member of the enum
UpdateData(supplied) ==
    [supplied EXCEPT !.programming_language =
        IF @ = None THEN None ELSE Some(ProgrammingLanguage(@[1]))]

\* update_assignment: get_class_by_id and the tests that follow it without
\* another await: the owner, the deadline if one is supplied, the language
\* if one is supplied, the empty update
UpdateAssignmentGetClass(p) ==
    /\ cls[p].pc = "update_get_class"
    /\ LET rows == {c \in classes : c.id = cls[p].class_id}
           supplied == cls[p].supplied
           ret(kind) == cls' = [cls EXCEPT ![p].pc = "done",
                                           ![p].current_time = now,
                                           ![p].result = kind]
       IN  IF \/ rows = {}
              \/ \E c \in rows : c.teacher_id # cls[p].teacher_id
           THEN ret("Unauthorized")
           ELSE IF /\ supplied.deadline # None
                   /\ DeadlineNotInFuture(supplied.deadline[1], now)
           THEN ret("InvalidDeadline")
           ELSE IF /\ supplied.programming_language # None
                   /\ ProgrammingLanguage(supplied.programming_language[1])
                         = "none"
           THEN ret("InvalidLanguage")
           ELSE IF UpdateData(supplied) = NothingSupplied
           THEN ret("NoFieldsToUpdate")
           ELSE cls' = [cls EXCEPT ![p].pc = "update_repo_get",
                                   ![p].current_time = now]
    /\ UNCHANGED <<classes, assignments, enrollments, submissions, fileStore,
                   now, seq, sub, codeHistory>>

\* AssignmentRepository.update_assignment: the assignment is loaded again
UpdateAssignmentRepoGet(p) ==
    /\ cls[p].pc = "update_repo_get"
    /\ IF \E a \in assignments : a.id = cls[p].assignment_id
       THEN cls' = [cls EXCEPT ![p].pc = "update_commit"]
       ELSE ReturnCls(p, "UpdateFailed")
    /\ UNCHANGED <<classes, assignments, enrollments, submissions, fileStore,
                   now, seq, sub, codeHistory>>

\* an update that writes the defaults of create_assignment over the
\* fields that are not supplied
SetAttrs_Replace(assignment, update_data) ==
    [assignment EXCEPT
       !.programming_language = IF update_data.programming_language = None
                                THEN "python"
                                ELSE update_data.programming_language[1],
       !.deadline = IF update_data.deadline = None
                    THEN @ ELSE update_data.deadline[1],
       !.allow_resubmission = IF update_data.allow_resubmission = None
                              THEN TRUE
                              ELSE update_data.allow_resubmission[1]]

\* for key, value in kwargs.items(): setattr(assignment, key, value)
SetAttrs(assignment, update_data) ==
    [assignment EXCEPT
       !.programming_language = IF update_data.programming_language = None
                                THEN @
                                ELSE update_data.programming_language[1],
       !.deadline = IF update_data.deadline = None
                    THEN @ ELSE update_data.deadline[1],
       !.allow_resubmission = IF update_data.allow_resubmission = None
                              THEN @
                              ELSE update_data.allow_resubmission[1]]

\* AssignmentRepository.update_assignment: setattr and commit; updating a
\* row that is gone raises and update_assignment returns the generic
\* failure
UpdateAssignmentCommit(p) ==
    /\ cls[p].pc = "update_commit"
    /\ LET rows == {a \in assignments : a.id = cls[p].assignment_id}
       IN  IF rows = {}
           THEN ReturnCls(p, "Failure") /\ UNCHANGED assignments
           ELSE /\ assignments' =
                     (assignments \ rows) \cup
                     {SetAttrs(a, UpdateData(cls[p].supplied)) : a \in rows}
                /\ ReturnCls(p, "Success")
    /\ UNCHANGED <<classes, enrollments, submissions, fileStore, now, seq,
                   sub, codeHistory>>

\* the request arrives: assignment_id and the requesting teacher_id
BeginDeleteAssignment(p, aids, teachers) ==
    /\ cls[p].pc \in {"idle", "done"}
    /\ \E a \in aids, t \in teachers :
          cls' = [cls EXCEPT ![p] =
                    [IdleCls EXCEPT !.op = "delete_assignment",
                                    !.pc = "delete_assignment_get",
                                    !.assignment_id = a, !.teacher_id = t,
                                    !.pre = assignments]]
    /\ UNCHANGED <<classes, assignments, enrollments, submissions, fileStore,
                   now, seq, sub, codeHistory>>

\* delete_assignment: get_assignment_by_id
DeleteAssignmentGet(p) ==
    /\ cls[p].pc = "delete_assignment_get"
    /\ LET rows == {a \in assignments : a.id = cls[p].assignment_id}
       IN  IF rows = {} THEN ReturnCls(p, "NotFound")
           ELSE cls' = [cls EXCEPT
                          ![p].pc = "delete_assignment_get_class",
                          ![p].class_id = (CHOOSE a \in rows : TRUE).class_id]
    /\ UNCHANGED <<classes, assignments, enrollments, submissions, fileStore,
                   now, seq, sub, codeHistory>>

\* delete_assignment: get_class_by_id and the test on the owner
DeleteAssignmentGetClass(p) ==
    /\ cls[p].pc = "delete_assignment_get_class"
    /\ IF \E c \in classes : /\ c.id = cls[p].class_id
                              /\ c.teacher_id = cls[p].teacher_id
       THEN cls' = [cls EXCEPT ![p].pc = "delete_assignment_repo_get"]
       ELSE ReturnCls(p, "Unauthorized")
    /\ UNCHANGED <<classes, assignments, enrollments, submissions, fileStore,
                   now, seq, sub, codeHistory>>

\* AssignmentRepository.delete_assignment: the assignment is loaded again
DeleteAssignmentRepoGet(p) ==
    /\ cls[p].pc = "delete_assignment_repo_get"
    /\ IF \E a \in assignments : a.id = cls[p].assignment_id
       THEN cls' = [cls EXCEPT ![p].pc = "delete_assignment_commit"]
       ELSE ReturnCls(p, "DeleteFailed")
    /\ UNCHANGED <<classes, assignments, enrollments, submissions, fileStore,
                   now, seq, sub, codeHistory>>

\* the rows db.delete(assignment) removes: the assignment and, by the
\* cascade of Assignment.submissions, its submissions
AssignmentsAfterDeleteAssignment(assignment_id) ==
    {a \in assignments : a.id # assignment_id}
SubmissionsAfterDeleteAssignment(assignment_id) ==
    {r \in submissions : r.assignment_id # assignment_id}

\* AssignmentRepository.delete_assignment: db.delete and commit
DeleteAssignmentCommit(p) ==
    /\ cls[p].pc = "delete_assignment_commit"
    /\ assignments' = AssignmentsAfterDeleteAssignment(cls[p].assignment_id)
    /\ submissions' = SubmissionsAfterDeleteAssignment(cls[p].assignment_id)
    /\ ReturnCls(p, "Success")
    /\ UNCHANGED <<classes, enrollments, fileStore, now, seq, sub,
                   codeHistory>>

\* every step of an update_assignment or delete_assignment call after its
\* arrival
AssignmentStep(p) ==
    \/ UpdateAssignmentGet(p)
    \/ UpdateAssignmentGetClass(p)
    \/ UpdateAssignmentRepoGet(p)
    \/ UpdateAssignmentCommit(p)
    \/ DeleteAssignmentGet(p)
    \/ DeleteAssignmentGetClass(p)
    \/ DeleteAssignmentRepoGet(p)
    \/ DeleteAssignmentCommit(p)

\* the optional fields an update_assignment request carries
LanguageOptions == {None, Some(JAVA), Some(<<"r","u","b","y">>)}
DeadlineOptions == {None} \cup {Some(d) : d \in 0..(MaxTime + 1)}
AllowOptions == {None, Some(FALSE)}

\* update_assignment and delete_assignment calls handled one at a time by
\* one worker while the clock advances
NextAssignUpdate ==
    \/ BeginUpdateAssignment(1, AssignmentIds, Teachers, LanguageOptions,
                             DeadlineOptions, AllowOptions)
    \/ BeginDeleteAssignment(1, AssignmentIds, Teachers)
    \/ AssignmentStep(1)
    \/ Tick

SpecAssignUpdate == InitEnroll /\ [][NextAssignUpdate]_vars

----------------------------------------------------------------------------
(* Properties of update_assignment *)

\* the value a field has after an update that may supply it
Updated(old, option) == IF option = None THEN old ELSE option[1]

\* C21: update assignment changes exactly the fields that were supplied
\* and leaves every unsupplied field of the assignment unchanged; it
\* applies the strictly-in-the-future deadline rule only when a deadline is
\* supplied, fails with NoFieldsToUpdate when no field is supplied, fails
\* with Unauthorized when teacher_id is not the teacher of the owning
\* class, and leaves the assignment unchanged on every failure.  For an
\* assignment that exists and is active the tests apply in the order
\* owner, deadline, language, empty update.
C21_UpdateChangesSuppliedFieldsOnly ==
    \A p \in Procs :
      (cls[p].op = "update_assignment" /\ cls[p].pc = "done")
      => /\ cls[p].result # "Success" => assignments = cls[p].pre
         /\ \A a \in cls[p].pre :
              (a.id = cls[p].assignment_id /\ a.is_active)
              => LET supplied == cls[p].supplied
                     owner == \E c \in classes :
                                 /\ c.id = a.class_id
                                 /\ c.teacher_id = cls[p].teacher_id
                 IN  IF ~owner THEN cls[p].result = "Unauthorized"
                     ELSE IF /\ supplied.deadline # None
                             /\ supplied.deadline[1] <= cls[p].current_time
                     THEN cls[p].result = "InvalidDeadline"
                     ELSE IF /\ supplied.programming_language # None
                             /\ Lower(supplied.programming_language[1])
                                   \notin {PYTHON, JAVA}
                     THEN cls[p].result = "InvalidLanguage"
                     ELSE IF supplied = NothingSupplied
                     THEN cls[p].result = "NoFieldsToUpdate"
                     ELSE /\ cls[p].result = "Success"
                          /\ \E b \in assignments :
                               /\ assignments = (cls[p].pre \ {a}) \cup {b}
                               /\ b.id = a.id /\ b.class_id = a.class_id
                               /\ b.is_active = a.is_active
                               /\ b.deadline =
                                     Updated(a.deadline, supplied.deadline)
                               /\ b.allow_resubmission =
                                     Updated(a.allow_resubmission,
                                             supplied.allow_resubmission)
                               /\ b.programming_language =
                                     IF supplied.programming_language = None
                                     THEN a.programming_language
                                     ELSE ProgrammingLanguage(
                                            supplied.programming_language[1])

\* an update that supplies allow_resubmission only succeeded on an
\* assignment whose deadline has passed, and the deadline and the language
\* are as they were
C21_Witness ==
    /\ cls[1].op = "update_assignment" /\ cls[1].pc = "done"
    /\ cls[1].result = "Success"
    /\ cls[1].supplied = [NothingSupplied EXCEPT
                            !.allow_resubmission = Some(FALSE)]
    /\ \E a \in cls[1].pre, b \in assignments :
          /\ a.id = cls[1].assignment_id /\ b.id = a.id
          /\ a.allow_resubmission /\ ~b.allow_resubmission
          /\ b.deadline = a.deadline /\ a.deadline < cls[1].current_time
          /\ b.programming_language = a.programming_language

----------------------------------------------------------------------------
(* Properties of the generation of class codes *)

\* C22: generate_unique_code(length) tries at most 100 random candidates
\* of the current length, returns the first candidate that is not the code
\* of any stored class at the instant of the check, and only after 100
\* consecutive collisions continues with length + 1; the code it returns
\* is never equal to a class code stored at the time of its check.
C22_GenerateUniqueCode ==
    [][\A p \in Procs :
         (cls[p].pc = "generate" /\ cls'[p] # cls[p])
         => /\ cls[p].attempt < 100
            /\ cls'[p].pc # "generate"
                  => /\ ~CheckClassCodeExists(classes, cls'[p].class_code)
                     /\ Len(cls'[p].class_code) = cls[p].length
                     /\ cls'[p].length = cls[p].length
            /\ cls'[p].pc = "generate"
                  => /\ \E code \in RandomCodes(cls[p].length) :
                            CheckClassCodeExists(classes, code)
                     /\ \/ /\ cls'[p].length = cls[p].length
                            /\ cls'[p].attempt = cls[p].attempt + 1
                            /\ cls'[p].attempt < 100
                        \/ /\ cls'[p].length = cls[p].length + 1
                            /\ cls[p].attempt = 99
                            /\ cls'[p].attempt = 0]_vars

\* after 100 collisions at length 6 the function returned a code of
\* length 7
C22_Witness ==
    /\ cls[1].op = "create_class" /\ cls[1].pc = "insert"
    /\ cls[1].length = DEFAULT_CODE_LENGTH + 1
    /\ Len(cls[1].class_code) = DEFAULT_CODE_LENGTH + 1
    /\ ~CheckClassCodeExists(classes, cls[1].class_code)

\* the digits 0-9
Digits == {"0","1","2","3","4","5","6","7","8","9"}

\* create_class calls handled one at a time by one worker; the supplied
\* class_code is none, a code of six capitals, or "ab"
NextClassCodes ==
    \/ BeginCreateClass(1, {FixtureClass.teacher_id},
                        SuppliedCodes \cup {<<"a","b">>})
    \/ CreateClassStep(1)

SpecClassCodes == InitClass /\ [][NextClassCodes]_vars

\* C23: in every reachable state every stored class has a class_code of 6
\* to 20 characters, all drawn from uppercase A-Z and digits 0-9, whether
\* the code was generated (including after length escalation) or supplied
\* by the caller of create_class.
C23_ClassCodeFormat ==
    \A c \in classes :
      /\ Len(c.class_code) >= 6 /\ Len(c.class_code) <= 20
      /\ \A i \in 1..Len(c.class_code) :
            \/ c.class_code[i] \in Digits
            \/ \E j \in 1..Len(UpperChars) : UpperChars[j] = c.class_code[i]

(* ---------------------------------------------------------------------- *)
(* Deletion.                                                               *)
(* ---------------------------------------------------------------------- *)

\* C24: delete_class is a soft delete: after a successful delete_class the
\* class row of the call is still stored, with is_active = FALSE.
C24_DeleteClassIsSoft ==
    \A p \in Procs :
       (cls[p].op = "delete_class" /\ cls[p].pc = "done"
          /\ cls[p].result = "Success")
       => \E c \in classes : c.id = cls[p].class_id /\ ~c.is_active

\* C25: submissions are append-only: no step removes a stored Submission
\* row or changes a field of it other than is_latest, and is_latest only
\* changes from TRUE to FALSE, in the step of a submit call for the pair of
\* the row that clears the flags before its insert.
C25_SubmissionsAppendOnly ==
    [][\A r \in submissions :
          \/ r \in submissions'
          \/ /\ r.is_latest
             /\ [r EXCEPT !.is_latest = FALSE] \in submissions'
             /\ \E p \in Procs : /\ sub[p].pc = "update_is_latest"
                                 /\ sub[p].assignment_id = r.assignment_id
                                 /\ sub[p].student_id = r.student_id]_vars

----------------------------------------------------------------------------
(* SubmissionService.get_submission_history *)

\* variant of the query that orders by submission_number.desc()
OrderBySubmissionNumber_Desc(rows) ==
    {h \in [1..Cardinality(rows) -> rows] :
       /\ \A i, j \in DOMAIN h : i # j => h[i] # h[j]
       /\ \A i, j \in DOMAIN h :
             i < j => h[i].submission_number >= h[j].submission_number}

\* .order_by(Submission.submission_number.asc()): the lists the query can
\* return; rows of equal submission_number come in any order
OrderBySubmissionNumber(rows) ==
    {h \in [1..Cardinality(rows) -> rows] :
       /\ \A i, j \in DOMAIN h : i # j => h[i] # h[j]
       /\ \A i, j \in DOMAIN h :
             i < j => h[i].submission_number <= h[j].submission_number}

\* get_submission_history: one SELECT of the rows of the pair, returned as
\* a list; pre is the table the query read
GetSubmissionHistoryCall(p, aids, sids) ==
    /\ cls[p].pc \in {"idle", "done"}
    /\ \E a \in aids, s \in sids :
         \E h \in OrderBySubmissionNumber(PairRows(submissions, a, s)) :
            cls' = [cls EXCEPT ![p] =
                      [IdleCls EXCEPT !.op = "get_history", !.pc = "done",
                                      !.assignment_id = a, !.student_id = s,
                                      !.pre = submissions, !.history = h,
                                      !.result = "Success"]]
    /\ UNCHANGED <<classes, assignments, enrollments, submissions, fileStore,
                   now, seq, sub, codeHistory>>

(* Two workers whose submit calls for the pair (1, 1) interleave at every  *)
(* awaited step, while worker 2 also reads the history of the pairs (1, 1) *)
(* and (1, 3).                                                             *)
NextHistory ==
    \/ \E p \in Procs : BeginSubmit(p, {1}, {1}, {<<"h","w",".","P","y">>}, {1})
    \/ \E p \in Procs : SubmitStep(p)
    \/ GetSubmissionHistoryCall(2, {1}, {1, 3})

SpecHistory == InitConc /\ [][NextHistory]_vars

\* C26: the submission_number values of a pair with N rows are exactly
\* 1..N, one row each; a finished get_history call holds the rows of its
\* pair in ascending submission_number order, and while the table is as the
\* call read it the query of the pair has no other list to return.
C26_NumbersAndHistory ==
    /\ \A a \in AssignmentIds, s \in Students \cup {3} :
          LET rows == PairRows(submissions, a, s)
          IN  /\ {r.submission_number : r \in rows} = 1..Cardinality(rows)
              /\ \A r1, r2 \in rows :
                    r1.submission_number = r2.submission_number => r1 = r2
    /\ \A p \in Procs :
          cls[p].op = "get_history" =>
             LET h == cls[p].history
             IN  /\ {h[i] : i \in DOMAIN h}
                      = PairRows(cls[p].pre, cls[p].assignment_id,
                                 cls[p].student_id)
                 /\ \A i \in DOMAIN h : h[i].submission_number = i
                 /\ submissions = cls[p].pre =>
                       OrderBySubmissionNumber(
                           PairRows(submissions, cls[p].assignment_id,
                                    cls[p].student_id)) = {h}

\* a get_history call returned the two rows of the pair (1, 1), first and
\* second submission, and no row was written since
C26_Witness ==
    /\ cls[2].op = "get_history" /\ cls[2].student_id = 1
    /\ Len(cls[2].history) = 2
    /\ submissions = cls[2].pre

----------------------------------------------------------------------------
(* ClassService.update_class and ClassService.get_class_by_id *)
\* Result kinds of these calls:
\*  "NotFound"          "Class not found"
\*  "ClassDeleted"      "Class has been deleted"
\*  "Unauthorized"      "Unauthorized to update this class"
\*                      "Unauthorized access to this class"
\*  "NoFieldsToUpdate"  "No fields to update"
\*  "UpdateFailed"      "Failed to update class"
\*  "Failure"           "Failed to update class: <exception>"

RECURSIVE LStrip(_)
\* str.lstrip: the leading blanks are dropped
LStrip(s) == IF s # << >> /\ Head(s) = " " THEN LStrip(Tail(s)) ELSE s

RECURSIVE RStrip(_)
\* str.rstrip: the trailing blanks are dropped
RStrip(s) ==
    IF s # << >> /\ s[Len(s)] = " " THEN RStrip(SubSeq(s, 1, Len(s) - 1)) ELSE s

\* str.strip
Strip(s) == RStrip(LStrip(s))

\* the request arrives: class_id, the teacher_id of the requester and the
\* optional class_name and description
BeginUpdateClass(p, ids, teachers, names, descriptions) ==
    /\ cls[p].pc \in {"idle", "done"}
    /\ \E c \in ids, t \in teachers, n \in names, d \in descriptions :
          cls' = [cls EXCEPT ![p] =
                    [IdleCls EXCEPT !.op = "update_class", !.pc = "update_class_get",
                                    !.teacher_id = t, !.class_id = c,
                                    !.supplied = [class_name |-> n,
                                                  description |-> d]]]
    /\ UNCHANGED <<classes, assignments, enrollments, submissions, fileStore,
                   now, seq, sub, codeHistory>>

\* update_data of update_class: the stripped class_name, when one is
\* supplied; description is a column the rows of the model leave out
ClassUpdateData(supplied) ==
    IF supplied.class_name # None
    THEN [class_name |-> Strip(supplied.class_name[1])]
    ELSE << >>

\* ClassService.update_class: the class is loaded and the request checked
UpdateClassGet(p) ==
    /\ cls[p].pc = "update_class_get"
    /\ LET rows == {c \in classes : c.id = cls[p].class_id}
       IN  IF rows = {} THEN ReturnCls(p, "NotFound")
           ELSE LET class_obj == CHOOSE c \in rows : TRUE
                IN  IF ~class_obj.is_active THEN ReturnCls(p, "ClassDeleted")
                    ELSE IF class_obj.teacher_id # cls[p].teacher_id
                    THEN ReturnCls(p, "Unauthorized")
                    ELSE IF /\ cls[p].supplied.class_name = None
                            /\ cls[p].supplied.description = None
                    THEN ReturnCls(p, "NoFieldsToUpdate")
                    ELSE cls' = [cls EXCEPT ![p].pc = "update_class_repo_get"]
    /\ UNCHANGED <<classes, assignments, enrollments, submissions, fileStore,
                   now, seq, sub, codeHistory>>

\* ClassRepository.update_class: the class is loaded again
UpdateClassRepoGet(p) ==
    /\ cls[p].pc = "update_class_repo_get"
    /\ IF \E c \in classes : c.id = cls[p].class_id
       THEN cls' = [cls EXCEPT ![p].pc = "update_class_commit"]
       ELSE ReturnCls(p, "UpdateFailed")
    /\ UNCHANGED <<classes, assignments, enrollments, submissions, fileStore,
                   now, seq, sub, codeHistory>>

\* variant of the loop that also clears is_active
SetClassAttrs_Deactivate(class_obj, update_data) ==
    [class_obj EXCEPT !.is_active = FALSE]

\* the setattr loop of ClassRepository.update_class over the keys of
\* update_data
SetClassAttrs(class_obj, update_data) ==
    [k \in DOMAIN class_obj |->
        IF k \in DOMAIN update_data THEN update_data[k] ELSE class_obj[k]]

\* ClassRepository.update_class: commit and refresh; on a row that was
\* deleted meanwhile they raise and update_class returns the generic failure
UpdateClassCommit(p) ==
    /\ cls[p].pc = "update_class_commit"
    /\ LET rows == {c \in classes : c.id = cls[p].class_id}
       IN  IF rows # {}
           THEN /\ classes' = (classes \ rows) \cup
                      {SetClassAttrs(c, ClassUpdateData(cls[p].supplied))
                         : c \in rows}
                /\ cls' = [cls EXCEPT ![p].pc = "count"]
           ELSE /\ ReturnCls(p, "Failure")
                /\ UNCHANGED classes
    /\ UNCHANGED <<assignments, enrollments, submissions, fileStore, now, seq,
                   sub, codeHistory>>

\* ClassService.get_class_by_id: the class is loaded, the request checked
\* and the students counted; teacher_id is optional
GetClassByIdCall(p, ids, teachers) ==
    /\ cls[p].pc \in {"idle", "done"}
    /\ \E c \in ids, t \in teachers :
         LET rows == {x \in classes : x.id = c}
             class_obj == CHOOSE x \in rows : TRUE
             result == IF rows = {} THEN "NotFound"
                       ELSE IF ~class_obj.is_active THEN "ClassDeleted"
                       ELSE IF t # None /\ class_obj.teacher_id # t[1]
                       THEN "Unauthorized"
                       ELSE "Success"
         IN  cls' = [cls EXCEPT ![p] =
                       [IdleCls EXCEPT !.op = "get_class_by_id", !.pc = "done",
                                       !.class_id = c,
                                       !.teacher_id = IF t = None THEN 0 ELSE t[1],
                                       !.result = result,
                                       !.student_count =
                                           IF result = "Success"
                                           THEN GetStudentCount(c) ELSE 0]]
    /\ UNCHANGED <<classes, assignments, enrollments, submissions, fileStore,
                   now, seq, sub, codeHistory>>

\* every step of an update_class call after its arrival
UpdateClassStep(p) ==
    \/ UpdateClassGet(p)
    \/ UpdateClassRepoGet(p)
    \/ UpdateClassCommit(p)

----------------------------------------------------------------------------
(* Every operation of the services, from the empty store.  A worker runs   *)
(* one call at a time: teacher 11 creates, updates, reads and deletes      *)
(* classes and assignments, student 1 joins, leaves, is removed and        *)
(* submits.                                                                *)

\* the store before the first request: empty tables, sequences at 1
InitEmpty ==
    /\ classes = {} /\ assignments = {} /\ enrollments = {}
    /\ submissions = {} /\ fileStore = {} /\ codeHistory = {}
    /\ now = 0
    /\ seq = [submission |-> 1, uuid |-> 1, class |-> 1, enrollment |-> 1,
              assignment |-> 1]
    /\ sub = [p \in Procs |-> IdleSub]
    /\ cls = [p \in Procs |-> IdleCls]

\* the bounds of the scenario: the classes, assignments, enrollments and
\* uploads its requests create
MaxAllClasses == 1
MaxAllAssignments == 1
MaxAllEnrollments == 2
MaxAllUploads == 2

\* the worker runs no call
Free(p) == sub[p].pc \in {"idle", "done"} /\ cls[p].pc \in {"idle", "done"}

\* the class code generate_unique_class_code gives the first class, which
\* the join requests carry
AllCode == <<"A","A","A","A","A","A">>

\* the arrival of a request at a free worker; the requests that create
\* rows stop at the bounds of the scenario
BeginAny(p) ==
    /\ Free(p)
    /\ \/ seq.class <= MaxAllClasses /\ BeginCreateClass(p, {11}, {<< >>})
       \/ BeginUpdateClass(p, {1}, {11}, {None, Some(<<" ","M">>)}, {None})
       \/ BeginDeleteClass(p, {1}, {11})
       \/ GetClassByIdCall(p, {1}, {None})
       \/ seq.enrollment <= MaxAllEnrollments /\ BeginJoin(p, {1}, {AllCode})
       \/ BeginLeave(p, {1}, {1})
       \/ BeginRemoveStudent(p, {1}, {1}, {11})
       \/ /\ seq.assignment <= MaxAllAssignments
          /\ BeginCreateAssignment(p, {1}, {11}, {PYTHON}, {Deadline})
       \/ BeginUpdateAssignment(p, {1}, {11}, {None}, {None}, AllowOptions)
       \/ BeginDeleteAssignment(p, {1}, {11})
       \/ /\ seq.uuid <= MaxAllUploads
          /\ BeginSubmit(p, {1}, {1}, {<<"h","w",".","P","y">>}, {1})

\* every step of a call after its arrival
AnyStep(p) ==
    \/ ClassStep(p)
    \/ UpdateClassStep(p)
    \/ EnrollmentStep(p)
    \/ CreateAssignmentGetClass(p)
    \/ CreateAssignmentInsert(p)
    \/ AssignmentStep(p)
    \/ SubmitStep(p)

NextAll ==
    \/ BeginAny(1)
    \/ AnyStep(1)

SpecAll == InitEmpty /\ [][NextAll]_vars

NextOwn ==
    \/ /\ Free(1)
       /\ \/ BeginCreateAssignment(1, {1}, {11}, {PYTHON}, {Deadline})
          \/ BeginJoin(1, {2}, {FixtureClass.class_code})
          \/ BeginSubmit(1, {1}, {1}, {<<"h","w",".","P","y">>}, {1})
    \/ CreateAssignmentGetClass(1) \/ CreateAssignmentInsert(1)
    \/ JoinGetClass(1) \/ JoinCheckEnrollment(1)
    \/ JoinCreateEnrollment(1) \/ JoinCountStudents(1)
    \/ SubmitStep(1)
    \/ BeginDeleteClass(2, {1}, {11})
    \/ BeginDeleteAssignment(2, {1, 2}, {11})
    \/ DeleteGetClass(2) \/ DeleteRepoGetClass(2) \/ DeleteClassCommit(2)
    \/ DeleteAssignmentGet(2) \/ DeleteAssignmentGetClass(2)
    \/ DeleteAssignmentRepoGet(2) \/ DeleteAssignmentCommit(2)

SpecOwn == InitConc /\ [][NextOwn]_vars

----------------------------------------------------------------------------
(* Membership changes and the history of a pair: on the store of the       *)
(* enrollment operations student 3, who has submitted once for assignment  *)
(* 1 of class 1, leaves the class or is removed from it, joins it again    *)
(* and submits a python file of one byte before the deadline, one call at  *)
(* a time.                                                                 *)
NextRejoin ==
    \/ /\ Free(1)
       /\ \/ BeginLeave(1, {3}, {1})
          \/ BeginRemoveStudent(1, {1}, {3}, {11})
          \/ BeginJoin(1, {3}, {FixtureClass.class_code})
          \/ BeginSubmit(1, {1}, {3}, {<<"h","w",".","P","y">>}, {1})
    \/ EnrollmentStep(1)
    \/ SubmitStep(1)

SpecRejoin == InitEnroll /\ [][NextRejoin]_vars

\* C29: a leave or remove_student call that ends leaves the rows of
\* submissions as they are; a submit call of student 3 that ends while the
\* student is not enrolled ends with NotEnrolled and writes no row; one that
\* ends while the student is enrolled again (by an enrollment newer than
\* those of the fixture) succeeds with submission_number N + 1, N the
\* number of rows of the pair.
C29_HistorySurvivesRejoin ==
    [][/\ (\E p \in Procs : /\ cls[p].op \in {"leave", "remove_student"}
                            /\ cls[p].pc # "done" /\ cls'[p].pc = "done")
          => submissions' = submissions
       /\ \A p \in Procs :
            (sub[p].pc # "done" /\ sub'[p].pc = "done" /\ sub[p].student_id = 3)
            => LET rows == PairRows(submissions, sub[p].assignment_id, 3)
                   mine == EnrollmentRows(3, 1)
               IN  /\ mine = {} => /\ sub'[p].result = "NotEnrolled"
                                   /\ submissions' = submissions
                   /\ (\E e \in mine : e.id >= InitSeq.enrollment + 1)
                      => /\ sub'[p].result = "Success"
                         /\ sub'[p].submission.submission_number
                              = Cardinality(rows) + 1]_vars

\* the part of C29 that holds: after leaving and joining again, the
\* resubmission of a student with one row succeeds with number 2
C29_RejoinedSecondSubmission ==
    /\ \E e \in EnrollmentRows(3, 1) : e.id >= InitSeq.enrollment + 1
    /\ sub[1].pc = "done" /\ sub[1].result = "Success"
    /\ sub[1].submission.submission_number = 2
    /\ FixtureSubmission.id \in {r.id : r \in submissions}

----------------------------------------------------------------------------
(* The file store and the rows of submissions *)

\* C30: when no call is between two of its steps, every object of the file
\* store is the file_path of exactly one Submission row, and every
\* Submission row's file_path is an object of the file store; no two rows
\* share a file_path.
C30_FileStoreMatchesRows ==
    (\A p \in Procs : Free(p))
    => /\ \A f \in fileStore :
             Cardinality({r \in submissions : r.file_path = f}) = 1
       /\ \A r \in submissions : r.file_path \in fileStore
       /\ \A r1, r2 \in submissions : r1.file_path = r2.file_path => r1 = r2

====
